---- MODULE Spec2Model ----
(***************************************************************************)
(* Model of the reference-count insertion pass of                          *)
(* src/codegen/irgen/refcounts.cpp (RefcountTracker::addRefcounts and its  *)
(* helpers): the traversal orderer, the block worklist, the backward       *)
(* refcount solver, the edge-insertion mutator, the emission of the        *)
(* planned operations and a walk of the rewritten function that adds up    *)
(* the reference contributions along each static path.                     *)
(***************************************************************************)
EXTENDS Integers, Sequences, FiniteSets, TLC

VARIABLES
    prog,       \* the input function: blocks of instructions + annotations (rt->vars, refs_consumed, refs_used, may_throw)
    tie,        \* how each call of std::sort orders cycle-seed candidates with equal counts
    phase,      \* position of addRefcounts: "order","solve","find","emit","yields","walk","failed"
    err,        \* the assertion that stopped the pass ("" when none)
    ordering,   \* result of computeTraversalOrder
    queue,      \* BlockOrderer::queue, a sequence of <<idx, priority>>
    in_queue,   \* BlockOrderer::in_queue
    states,     \* std::vector<RefState> states
    nruns,      \* how many times each block was processed
    last,       \* what the last iteration of the solver loop did
    ir,         \* the function's blocks as the mutator has rewritten them
    cache,      \* InsertionCache insertion_pts: <<to, from>> -> anchor
    cursor,     \* idx of the two mutator loops (lines 1212 and 1228)
    emitted,    \* anchor -> sequence of inc/dec operations inserted before it
    fixups,     \* anchor of a call -> to_decref of the landing pad emitted for it
    walk        \* a walk of the rewritten function: position, references held, status

vars == <<prog, tie, phase, err, ordering, queue, in_queue, states, nruns, last,
          ir, cache, cursor, emitted, fixups, walk>>

-----------------------------------------------------------------------------
(* Values, reference disciplines, instructions *)

OWNED == "OWNED"

BORROWED == "BORROWED"

UNKNOWN == "UNKNOWN"

NoVal == "none"

NoBlock == -1

Range(s) == {s[i] : i \in 1..Len(s)}

SetMin(S) == CHOOSE x \in S : \A y \in S : x <= y

SetMax(S) == CHOOSE x \in S : \A y \in S : x >= y

Occurrences(s, x) == Cardinality({i \in 1..Len(s) : s[i] = x})

\* first-seen order of the elements of a sequence
RECURSIVE Dedup(_)
Dedup(s) ==
    IF s = <<>> THEN <<>>
    ELSE LET r == Dedup(SubSeq(s, 1, Len(s) - 1))
             x == s[Len(s)]
         IN IF x \in Range(r) THEN r ELSE Append(r, x)

RECURSIVE Flatten(_)
Flatten(ss) == IF ss = <<>> THEN <<>> ELSE Head(ss) \o Flatten(Tail(ss))

Inst(kind, def, ops, consumed, used, mt, succs, yield) ==
    [kind |-> kind, def |-> def, ops |-> ops, consumed |-> consumed, used |-> used,
     may_throw |-> mt, succs |-> succs, inc |-> <<>>, yield |-> yield,
     rewritten |-> FALSE, live |-> <<>>, made |-> 0]

\* def = call(ops), with refConsumed / refUsed / setMayThrow annotations
Call(def, ops, consumed, used, mt) == Inst("call", def, ops, consumed, used, mt, <<>>, FALSE)

\* an instruction with no tracked operand and no annotation
Other == Inst("other", NoVal, <<>>, <<>>, <<>>, FALSE, <<>>, FALSE)

\* def = phi [.., inc[1]], [.., inc[2]]; the incoming values are consumed on the predecessors' terminators
Phi(def, inc) == [Inst("phi", def, <<>>, <<>>, <<>>, FALSE, <<>>, FALSE) EXCEPT !.inc = inc]

Br(t, consumed) == Inst("br", NoVal, <<>>, consumed, <<>>, FALSE, <<t>>, FALSE)

CondBr(t, f, consumed) == Inst("condbr", NoVal, <<>>, consumed, <<>>, FALSE, <<t, f>>, FALSE)

Invoke(def, ops, consumed, used, normal, unwind) ==
    Inst("invoke", def, ops, consumed, used, FALSE, <<normal, unwind>>, FALSE)

\* a switch with a default destination and two cases
Switch(d, t, f) == Inst("switch", NoVal, <<>>, <<>>, <<>>, FALSE, <<d, t, f>>, FALSE)

Ret(ops, consumed) == Inst("ret", NoVal, ops, consumed, <<>>, FALSE, <<>>, FALSE)

Unreachable == Inst("unreachable", NoVal, <<>>, <<>>, <<>>, FALSE, <<>>, FALSE)

LandingPad == Inst("landingpad", NoVal, <<>>, <<>>, <<>>, FALSE, <<>>, FALSE)

\* def = yield_capi(generator, value, num live values): ops are the call's three arguments
Yield(def, ops, consumed) == Inst("call", def, ops, consumed, <<>>, FALSE, <<>>, TRUE)

Var(reftype, nullable, kind) == [reftype |-> reftype, nullable |-> nullable, kind |-> kind]

\* blocks are numbered from 0 as in BBGraph::bbs
Blocks(seq) == [i \in 0..(Len(seq) - 1) |-> seq[i + 1]]

\* the order in which the function's branches were created: every branch is a use of its
\* destination blocks, and a block's use-list holds its most recently created use first
BlockOrder == "block order"

LastFirst == "last block first"

CreationOrders == {BlockOrder, LastFirst}

\* made, on a terminator: when it was created among the terminators of the function
Created(blocks, o) ==
    [b \in DOMAIN blocks |->
        [blocks[b] EXCEPT ![Len(blocks[b])].made =
            IF o = BlockOrder THEN b + 1 ELSE Cardinality(DOMAIN blocks) - b]]

\* pid names the function: <<name, kind of v, snippet, snippet, snippet>>
ProgramOf(pid, blockseq, tracked) ==
    [pid |-> pid, blocks |-> Created(Blocks(blockseq), BlockOrder), vars |-> tracked,
     created |-> BlockOrder]

\* the same function, its branches created in order o
CreatedIn(p, o) == [p EXCEPT !.blocks = Created(@, o), !.created = o]

Program(name, blockseq, tracked) ==
    ProgramOf(<<name, "", <<"none", 0>>, <<"none", 0>>, <<"none", 0>> >>, blockseq, tracked)

-----------------------------------------------------------------------------
(* BBGraph *)

NumBB(blocks) == Cardinality(DOMAIN blocks)

Terminator(blocks, b) == blocks[b][Len(blocks[b])]

Successors(blocks, b) == Terminator(blocks, b).succs

\* the blocks of S, the one whose terminator was created last first
RECURSIVE NewestFirst(_, _)
NewestFirst(blocks, S) ==
    IF S = {} THEN <<>>
    ELSE LET k == CHOOSE x \in S : \A y \in S :
                      \/ Terminator(blocks, x).made > Terminator(blocks, y).made
                      \/ Terminator(blocks, x).made = Terminator(blocks, y).made /\ x <= y
         IN <<k>> \o NewestFirst(blocks, S \ {k})

\* pred_begin..pred_end walks the use-list of b: one entry per incoming edge, the edges of
\* the most recently created branch first
Predecessors(blocks, b) ==
    LET from == NewestFirst(blocks, {k \in DOMAIN blocks : b \in Range(Successors(blocks, k))})
    IN Flatten([i \in 1..Len(from) |->
                   [j \in 1..Occurrences(Successors(blocks, from[i]), b) |-> from[i]]])

numPredecessors(blocks, b) == Len(Predecessors(blocks, b))

numSuccessors(blocks, b) == Len(Successors(blocks, b))

BBGraph(blocks) ==
    [n |-> NumBB(blocks),
     successors |-> [b \in DOMAIN blocks |-> Successors(blocks, b)],
     predecessors |-> [b \in DOMAIN blocks |-> Predecessors(blocks, b)]]

-----------------------------------------------------------------------------
(* computeTraversalOrder *)

\* what one call of std::sort may do with candidates of equal counts: a tie order lists the
\* blocks of the function, and of two candidates with equal counts the one listed first is
\* sorted first
TieOrders(n) == {t \in [1..n -> 0..(n - 1)] : \A i, j \in 1..n : t[i] = t[j] => i = j}

\* ties left in index order, as a sort that moves no element without need leaves them
StableTies(n) == [i \in 1..n |-> i - 1]

ReversedTies(n) == [i \in 1..n |-> n - i]

\* the place of block b in tie order t
TiePlace(t, b) == CHOOSE i \in 1..Len(t) : t[i] = b

\* std::sort is called once for every cycle seed, each time on another list, and may leave
\* equal candidates another way in every call: ts holds one tie order for each call of a
\* run, in the order of the calls; a call ts does not reach leaves them in index order
TieOfCall(ts, r, n) == IF r <= Len(ts) THEN ts[r] ELSE StableTies(n)

\* the same tie order t in each of n calls
EveryCall(t, n) == [r \in 1..n |-> t]

\* lines 554-560: exit blocks first, in index order
RECURSIVE ExitBlocks(_, _)
ExitBlocks(g, i) ==
    IF i >= g.n THEN <<>>
    ELSE (IF Len(g.successors[i]) = 0 THEN <<i>> ELSE <<>>) \o ExitBlocks(g, i + 1)

VisitPredEager(g, st, pidx) ==
    IF pidx \in st.added THEN st
    ELSE [st EXCEPT !.nsa[pidx] = @ + 1, !.ordering = Append(@, pidx), !.added = @ \cup {pidx}]

\* lines 570-581: one predecessor of the block being checked
VisitPred(g, st, pidx) ==
    IF pidx \in st.added THEN st
    ELSE LET n == st.nsa[pidx] + 1
             st1 == [st EXCEPT !.nsa[pidx] = n]
         IN IF n = Len(g.successors[pidx])
            THEN [st1 EXCEPT !.ordering = Append(@, pidx), !.added = @ \cup {pidx}]
            ELSE st1

RECURSIVE VisitPreds(_, _, _, _)
VisitPreds(g, st, ps, k) ==
    IF k > Len(ps) THEN st ELSE VisitPreds(g, VisitPred(g, st, ps[k]), ps, k + 1)

\* lines 595-597: std::sort by descending count; the comparator leaves the
\* order of candidates with equal counts to the sort
RECURSIVE SortByCount(_, _, _)
SortByCount(S, nsa, t) ==
    IF S = {} THEN <<>>
    ELSE LET mx == SetMax({nsa[i] : i \in S})
             top == {i \in S : nsa[i] = mx}
             pick == t[SetMin({i \in 1..Len(t) : t[i] \in top})]
         IN <<pick>> \o SortByCount(S \ {pick}, nsa, t)

\* lines 611-621: flood fill over forward edges
RECURSIVE Flood(_, _, _)
Flood(g, frontier, visited) ==
    IF frontier = {} THEN visited
    ELSE LET nxt == {s \in UNION {Range(g.successors[b]) : b \in frontier} : s \notin visited}
         IN Flood(g, nxt, visited \cup nxt)

\* the first candidate in sorted order
PickFirst(g, sorted, k, visited, best) == IF Len(sorted) = 0 THEN best ELSE sorted[1]

\* lines 601-622: the last candidate, in sorted order, not reached from an earlier one
RECURSIVE PickBest(_, _, _, _, _)
PickBest(g, sorted, k, visited, best) ==
    IF k > Len(sorted) THEN best
    ELSE IF sorted[k] \in visited THEN PickBest(g, sorted, k + 1, visited, best)
    ELSE PickBest(g, sorted, k + 1, Flood(g, {sorted[k]}, visited \cup {sorted[k]}), sorted[k])

CandidatesAny(g, st) == {i \in 0..(g.n - 1) : i \notin st.added}

\* lines 586-593
Candidates(g, st) == {i \in 0..(g.n - 1) : st.nsa[i] # 0 /\ i \notin st.added}

CycleSeed(g, st, t) == PickBest(g, SortByCount(Candidates(g, st), st.nsa, t), 1, {}, NoBlock)

\* lines 563-642; sorts counts the calls of std::sort so far, and a failed
\* assert(best != -1) ends the ordering with NoBlock
RECURSIVE OrderLoop(_, _, _)
OrderLoop(g, st, ts) ==
    IF Len(st.ordering) >= g.n THEN st.ordering
    ELSE IF st.cpi < Len(st.ordering)
    THEN LET idx == st.ordering[st.cpi + 1]
         IN OrderLoop(g, VisitPreds(g, [st EXCEPT !.cpi = @ + 1], g.predecessors[idx], 1), ts)
    ELSE LET best == CycleSeed(g, st, TieOfCall(ts, st.sorts + 1, g.n))
         IN IF best = NoBlock THEN Append(st.ordering, NoBlock)
            ELSE OrderLoop(g, [st EXCEPT !.ordering = Append(@, best), !.added = @ \cup {best},
                                         !.sorts = @ + 1], ts)

\* lines 547-561: the exit blocks are in the ordering and nothing else is counted yet
OrderStart(g) ==
    LET exits == ExitBlocks(g, 0)
    IN [ordering |-> exits, added |-> Range(exits), nsa |-> [i \in 0..(g.n - 1) |-> 0],
        cpi |-> 0, sorts |-> 0]

computeTraversalOrder(g, ts) == OrderLoop(g, OrderStart(g), ts)

\* the tie orders to try in the call of std::sort that state st of the loop has come to:
\* index order, and one more for every other seed a tie order leads to
SeedTies(g, st) ==
    LET stable == StableTies(g.n)
        others == {CycleSeed(g, st, t) : t \in TieOrders(g.n)} \ {CycleSeed(g, st, stable)}
    IN {stable} \cup {CHOOSE t \in TieOrders(g.n) : CycleSeed(g, st, t) = b : b \in others}

\* the runs of the loop of lines 563-642 from state st on, as the tie orders of their calls
\* of std::sort, after the calls ts: one run for every ordering the calls can lead to
RECURSIVE TieRuns(_, _, _)
TieRuns(g, st, ts) ==
    IF Len(st.ordering) >= g.n THEN {ts}
    ELSE IF st.cpi < Len(st.ordering)
    THEN LET idx == st.ordering[st.cpi + 1]
         IN TieRuns(g, VisitPreds(g, [st EXCEPT !.cpi = @ + 1], g.predecessors[idx], 1), ts)
    ELSE UNION {LET best == CycleSeed(g, st, t)
                IN IF best = NoBlock THEN {Append(ts, t)}
                   ELSE TieRuns(g, [st EXCEPT !.ordering = Append(@, best),
                                              !.added = @ \cup {best}, !.sorts = @ + 1],
                                Append(ts, t)) :
                t \in SeedTies(g, st)}

-----------------------------------------------------------------------------
(* BlockOrderer *)

\* lines 664-669
Priority(order, idx) == (CHOOSE i \in 1..Len(order) : order[i] = idx) - 1

OrdererAddUnchecked(order, q, inq, idx) ==
    [q |-> Append(q, <<idx, Priority(order, idx)>>), inq |-> [inq EXCEPT ![idx] = TRUE]]

\* lines 671-677
OrdererAdd(order, q, inq, idx) ==
    IF inq[idx] THEN [q |-> q, inq |-> inq]
    ELSE [q |-> Append(q, <<idx, Priority(order, idx)>>), inq |-> [inq EXCEPT ![idx] = TRUE]]

RECURSIVE OrdererAddAll(_, _, _, _, _)
OrdererAddAll(order, q, inq, idxs, k) ==
    IF k > Len(idxs) THEN [q |-> q, inq |-> inq]
    ELSE LET r == OrdererAdd(order, q, inq, idxs[k])
         IN OrdererAddAll(order, r.q, r.inq, idxs, k + 1)

QueueTopLargest(q) == CHOOSE i \in 1..Len(q) : \A j \in 1..Len(q) : q[i][2] >= q[j][2]

\* lines 679-690: the queued block with the smallest priority number
QueueTop(q) == CHOOSE i \in 1..Len(q) : \A j \in 1..Len(q) : q[i][2] <= q[j][2]

OrdererPop(q) == IF Len(q) = 0 THEN NoBlock ELSE q[QueueTop(q)][1]

QueueWithoutTop(q) ==
    LET t == QueueTop(q) IN [i \in 1..(Len(q) - 1) |-> IF i < t THEN q[i] ELSE q[i + 1]]

-----------------------------------------------------------------------------
(* OrderedMap<llvm::Value*, int> (BlockMap): a sequence of [k, n] in insertion order *)

OMCount(m, k) == IF \E i \in 1..Len(m) : m[i].k = k THEN 1 ELSE 0

\* the count stored for k, 0 when k is missing (what operator[] reads after inserting V())
OMGet(m, k) == IF OMCount(m, k) = 0 THEN 0 ELSE m[CHOOSE i \in 1..Len(m) : m[i].k = k].n

\* m[k] = n
OMSet(m, k, n) ==
    IF OMCount(m, k) = 0 THEN Append(m, [k |-> k, n |-> n])
    ELSE [i \in 1..Len(m) |-> IF m[i].k = k THEN [k |-> k, n |-> n] ELSE m[i]]

OMErase(m, k) == SelectSeq(m, LAMBDA e : e.k # k)

OMKeys(m) == [i \in 1..Len(m) |-> m[i].k]

AlwaysDifferent(lhs, rhs) == TRUE

DifferentAsSequences(lhs, rhs) == lhs # rhs

\* lines 694-704
endingRefsDifferent(lhs, rhs) ==
    \/ Len(lhs) # Len(rhs)
    \/ \E i \in 1..Len(lhs) : OMCount(rhs, lhs[i].k) = 0 \/ lhs[i].n # OMGet(rhs, lhs[i].k)

-----------------------------------------------------------------------------
(* RefOp, RefState *)

\* an instruction of the input function: block index and position in the block
Anchor(b, i) == <<b, i>>

NoAnchor == <<>>

\* lines 810-819: exactly one of insertion_inst and insertion_bb is set
RefOp(operand, nullable, num_refs, insertion_inst, insertion_bb, insertion_from_bb) ==
    [operand |-> operand, nullable |-> nullable, num_refs |-> num_refs,
     insertion_inst |-> insertion_inst, insertion_bb |-> insertion_bb,
     insertion_from_bb |-> insertion_from_bb]

\* lines 821-838
FreshRefState ==
    [been_run |-> FALSE, starting_refs |-> <<>>, ending_refs |-> <<>>,
     increfs |-> <<>>, decrefs |-> <<>>, cxx_fixups |-> <<>>]

Tracked(p, v) == v \in DOMAIN p.vars

RefTypeOf(p, v) == p.vars[v].reftype

NeverNullable(p, v) == FALSE

NullableOf(p, v) == p.vars[v].nullable

\* 1 if OWNED else 0 (lines 987, 1017, 1145)
NeededRefs(p, v) == IF RefTypeOf(p, v) = OWNED THEN 1 ELSE 0

-----------------------------------------------------------------------------
(* Merge from the successors that have been run: lines 900-974 *)

RunSuccessors(p, sts, idx) == SelectSeq(Successors(p.blocks, idx), LAMBDA s : sts[s].been_run)

\* lines 907-920: first-seen order across the ordered successor list
TrackedValues(sts, succs) == Dedup(Flatten([j \in 1..Len(succs) |-> OMKeys(sts[succs[j]].ending_refs)]))

\* lines 933-944
MinOverSuccessors(sts, succs, v) == SetMin({OMGet(sts[s].ending_refs, v) : s \in Range(succs)})

MinRefsAsMax(p, sts, succs, v) ==
    LET m == SetMax({OMGet(sts[s].ending_refs, v) : s \in Range(succs)})
    IN IF RefTypeOf(p, v) = OWNED /\ m < 1 THEN 1 ELSE m

MinRefsNoBirth(p, sts, succs, v) == MinOverSuccessors(sts, succs, v)

\* lines 933-947
MinRefs(p, sts, succs, v) ==
    LET m == MinOverSuccessors(sts, succs, v)
    IN IF RefTypeOf(p, v) = OWNED /\ m < 1 THEN 1 ELSE m

\* lines 949-964: the ops one value puts on the edges idx -> s
RECURSIVE MergeEdgeOps(_, _, _, _, _, _, _)
MergeEdgeOps(p, sts, idx, succs, v, k, acc) ==
    IF k > Len(succs) THEN acc
    ELSE LET s == succs[k]
             this_refs == OMGet(sts[s].ending_refs, v)
             min_refs == MinRefs(p, sts, succs, v)
             acc1 == IF this_refs > min_refs
                     THEN [acc EXCEPT !.increfs = Append(@,
                              RefOp(v, NullableOf(p, v), this_refs - min_refs, NoAnchor, s, idx))]
                     ELSE IF this_refs < min_refs
                     THEN [acc EXCEPT !.decrefs = Append(@,
                              RefOp(v, NullableOf(p, v), min_refs - this_refs, NoAnchor, s, idx)),
                              !.err = IF RefTypeOf(p, v) # OWNED /\ @ = ""
                                      THEN "decref of a value that is not OWNED" ELSE @]
                     ELSE acc
         IN MergeEdgeOps(p, sts, idx, succs, v, k + 1, acc1)

\* lines 928-970
RECURSIVE MergeValues(_, _, _, _, _, _, _)
MergeValues(p, sts, idx, succs, tv, k, acc) ==
    IF k > Len(tv) THEN acc
    ELSE LET v == tv[k]
             min_refs == MinRefs(p, sts, succs, v)
             acc1 == MergeEdgeOps(p, sts, idx, succs, v, 1, acc)
             acc2 == IF min_refs # 0
                     THEN [acc1 EXCEPT !.starting_refs = OMSet(@, v, min_refs)]
                     ELSE acc1
         IN MergeValues(p, sts, idx, succs, tv, k + 1, acc2)

\* lines 888-898: block idx is marked run and its maps are cleared before its successors are
\* read, so a block that is its own successor reads its own summary as run and empty
Cleared(sts, idx) == [sts EXCEPT ![idx] = [FreshRefState EXCEPT !.been_run = TRUE]]

\* lines 894-974: the cleared state, merged, with ending_refs seeded from starting_refs
MergeFromSuccessors(p, sts, idx) ==
    LET cur == Cleared(sts, idx)
        succs == RunSuccessors(p, cur, idx)
        clear == [been_run |-> TRUE, starting_refs |-> <<>>, ending_refs |-> <<>>,
                  increfs |-> <<>>, decrefs |-> <<>>, cxx_fixups |-> <<>>, err |-> ""]
        zero == \E j \in 1..Len(succs) : \E e \in Range(cur[succs[j]].ending_refs) : e.n <= 0
        m == IF Len(succs) > 0
             THEN MergeValues(p, cur, idx, succs, TrackedValues(cur, succs), 1, clear)
             ELSE clear
    IN [m EXCEPT !.ending_refs = m.starting_refs,
                 !.err = IF zero THEN "successor entry not positive" ELSE @]

-----------------------------------------------------------------------------
(* Backward instruction scan: lines 977-1127 *)

IsTerminator(p, b, i) == i = Len(p.blocks[b])

\* lines 992-995: the next instruction that is not a phi
RECURSIVE SkipPhis(_, _, _)
SkipPhis(p, b, j) ==
    IF j < Len(p.blocks[b]) /\ p.blocks[b][j].kind = "phi" THEN SkipPhis(p, b, j + 1) ELSE j

Fail(acc, msg) == [acc EXCEPT !.err = IF @ = "" THEN msg ELSE @]

DefinitionOpIncrefOnly(p, acc, v, inst_site, bb, from_bb) ==
    IF OMGet(acc.ending_refs, v) > NeededRefs(p, v)
    THEN [acc EXCEPT !.increfs = Append(@,
             RefOp(v, NullableOf(p, v), OMGet(acc.ending_refs, v) - NeededRefs(p, v),
                   inst_site, bb, from_bb))]
    ELSE acc

\* lines 987-1005 (and 1145-1161 for an invoke): the adjustment between what the scan
\* holds for a defined value and what its definition provides
DefinitionOp(p, acc, v, inst_site, bb, from_bb) ==
    LET starting_refs == NeededRefs(p, v)
        have == OMGet(acc.ending_refs, v)
    IN IF have = starting_refs THEN acc
       ELSE IF have < starting_refs
       THEN [acc EXCEPT !.decrefs = Append(@,
                RefOp(v, NullableOf(p, v), starting_refs - have, inst_site, bb, from_bb))]
       ELSE [acc EXCEPT !.increfs = Append(@,
                RefOp(v, NullableOf(p, v), have - starting_refs, inst_site, bb, from_bb))]

\* lines 985-1007
ScanDefinition(p, b, i, acc) ==
    LET I == p.blocks[b][i]
    IN IF I.kind # "invoke" /\ Tracked(p, I.def)
       THEN LET a1 == IF OMGet(acc.ending_refs, I.def) # NeededRefs(p, I.def) /\ IsTerminator(p, b, i)
                      THEN Fail(acc, "definition is the terminator") ELSE acc
                a2 == DefinitionOp(p, a1, I.def, Anchor(b, SkipPhis(p, b, i + 1)), NoBlock, NoBlock)
            IN [a2 EXCEPT !.ending_refs = OMErase(@, I.def)]
       ELSE acc

\* line 1020: I.getNextNode(), which is NULL when I is the last instruction of its block
getNextNode(p, b, i) == IF i < Len(p.blocks[b]) THEN Anchor(b, i + 1) ELSE NoAnchor

\* lines 1016-1026, one entry of ending_refs
RECURSIVE FlushSurplus(_, _, _, _, _)
FlushSurplus(p, b, i, acc, k) ==
    IF k > Len(acc.ending_refs) THEN acc
    ELSE LET e == acc.ending_refs[k]
             needed_refs == NeededRefs(p, e.k)
             a1 == IF e.n > needed_refs
                   THEN [acc EXCEPT !.increfs = Append(@,
                            RefOp(e.k, NullableOf(p, e.k), e.n - needed_refs,
                                  getNextNode(p, b, i), NoBlock, NoBlock))]
                   ELSE acc
         IN FlushSurplus(p, b, i, [a1 EXCEPT !.ending_refs[k].n = needed_refs], k + 1)

KeepZeroEntries(m) == m

\* lines 1024-1029: to_erase
EraseUnneeded(m) == SelectSeq(m, LAMBDA e : e.n # 0)

ScanFlushSkipped(p, b, i, acc) == acc

ScanFlushNoIncrement(p, b, i, acc) ==
    IF p.blocks[b][i].may_throw
    THEN [acc EXCEPT !.ending_refs =
             EraseUnneeded([k \in 1..Len(acc.ending_refs) |->
                              [acc.ending_refs[k] EXCEPT !.n = NeededRefs(p, acc.ending_refs[k].k)]])]
    ELSE acc

\* lines 1014-1030
ScanFlush(p, b, i, acc) ==
    IF p.blocks[b][i].may_throw
    THEN LET a1 == FlushSurplus(p, b, i, acc, 1)
         IN [a1 EXCEPT !.ending_refs = EraseUnneeded(@)]
    ELSE acc

TrackedOperands(p, I) == SelectSeq(I.ops, LAMBDA v : Tracked(p, v))

\* lines 1032-1062: the keys of num_times_as_op, in insertion order
OperandKeys(p, I) == Dedup(I.consumed \o I.used \o TrackedOperands(p, I))

NumTimesAsOp(p, I, v) == Occurrences(I.used, v) + Occurrences(TrackedOperands(p, I), v)

NumConsumedByInst(I, v) == Occurrences(I.consumed, v)

LastUseDecrefsNormalEdgeOnly(p, b, i, acc, op) ==
    IF p.blocks[b][i].kind = "invoke"
    THEN [acc EXCEPT !.decrefs = Append(@,
             RefOp(op, NullableOf(p, op), 1, NoAnchor, p.blocks[b][i].succs[1], b))]
    ELSE IF IsTerminator(p, b, i) THEN Fail(acc, "last use is the terminator")
    ELSE IF p.blocks[b][i + 1].kind = "unreachable" THEN acc
    ELSE [acc EXCEPT !.decrefs = Append(@,
             RefOp(op, NullableOf(p, op), 1, Anchor(b, i + 1), NoBlock, NoBlock))]

\* lines 1075-1093: where the decrement after a last use goes
LastUseDecrefs(p, b, i, acc, op) ==
    LET I == p.blocks[b][i]
    IN IF I.kind = "invoke"
       THEN [acc EXCEPT !.decrefs = @ \o
                <<RefOp(op, NullableOf(p, op), 1, NoAnchor, I.succs[1], b),
                  RefOp(op, NullableOf(p, op), 1, NoAnchor, I.succs[2], b)>>]
       ELSE IF IsTerminator(p, b, i) THEN Fail(acc, "last use is the terminator")
       ELSE IF p.blocks[b][i + 1].kind = "unreachable"
       THEN IF I.may_throw THEN acc ELSE Fail(acc, "unreachable after an instruction that cannot throw")
       ELSE [acc EXCEPT !.decrefs = Append(@,
                RefOp(op, NullableOf(p, op), 1, Anchor(b, i + 1), NoBlock, NoBlock))]

LastUseNoDecref(p, b, i, acc, op) ==
    IF NumTimesAsOp(p, p.blocks[b][i], op) > NumConsumedByInst(p.blocks[b][i], op)
       /\ RefTypeOf(p, op) = OWNED
       /\ OMGet(acc.ending_refs, op) = 0
    THEN [acc EXCEPT !.ending_refs = OMSet(@, op, 1)]
    ELSE acc

\* lines 1065-1098, one operand
LastUse(p, b, i, acc, op) ==
    IF NumTimesAsOp(p, p.blocks[b][i], op) > NumConsumedByInst(p.blocks[b][i], op)
       /\ RefTypeOf(p, op) = OWNED
       /\ OMGet(acc.ending_refs, op) = 0
    THEN [LastUseDecrefs(p, b, i, acc, op) EXCEPT !.ending_refs = OMSet(@, op, 1)]
    ELSE acc

RECURSIVE ScanLastUses(_, _, _, _, _, _)
ScanLastUses(p, b, i, acc, keys, k) ==
    IF k > Len(keys) THEN acc
    ELSE ScanLastUses(p, b, i, LastUse(p, b, i, acc, keys[k]), keys, k + 1)

ExpandRefsNewestFirst(m) ==
    Flatten([k \in 1..Len(m) |-> [j \in 1..m[Len(m) + 1 - k].n |-> m[Len(m) + 1 - k].k]])

\* lines 1106-1111: each count expanded into that many entries, in insertion order
ExpandRefs(m) == Flatten([k \in 1..Len(m) |-> [j \in 1..m[k].n |-> m[k].k]])

\* lines 1100-1115
ScanFixup(p, b, i, acc) ==
    IF p.blocks[b][i].may_throw /\ ExpandRefs(acc.ending_refs) # <<>>
    THEN [acc EXCEPT !.cxx_fixups = Append(@,
             [inst |-> Anchor(b, i), to_decref |-> ExpandRefs(acc.ending_refs)])]
    ELSE acc

StolenForgotten(I, acc, keys, k) == acc

\* lines 1119-1126
RECURSIVE ScanStolen(_, _, _, _)
ScanStolen(I, acc, keys, k) ==
    IF k > Len(keys) THEN acc
    ELSE LET n == NumConsumedByInst(I, keys[k])
             a1 == IF n # 0
                   THEN [acc EXCEPT !.ending_refs = OMSet(@, keys[k], OMGet(@, keys[k]) + n)]
                   ELSE acc
         IN ScanStolen(I, a1, keys, k + 1)

StolenThenFixup(p, b, i, acc) ==
    ScanFixup(p, b, i, ScanStolen(p.blocks[b][i], acc, OperandKeys(p, p.blocks[b][i]), 1))

\* lines 1100-1126
FixupThenStolen(p, b, i, acc) ==
    ScanStolen(p.blocks[b][i], ScanFixup(p, b, i, acc), OperandKeys(p, p.blocks[b][i]), 1)

\* lines 983-1126: one instruction of the backward scan
ScanInst(p, b, i, acc) ==
    LET I == p.blocks[b][i]
        a1 == ScanDefinition(p, b, i, acc)
    IN IF I.kind = "phi" THEN a1
       ELSE FixupThenStolen(p, b, i,
                ScanLastUses(p, b, i, ScanFlush(p, b, i, a1), OperandKeys(p, I), 1))

\* line 977: reverse iteration over the block
RECURSIVE ScanBlock(_, _, _, _)
ScanBlock(p, b, i, acc) ==
    IF i < 1 THEN acc
    ELSE LET scanned == ScanInst(p, b, i, acc)
         \* the test makes TLC evaluate scanned here, once, and not nested in the scans that
         \* follow
         IN IF scanned.err = scanned.err THEN ScanBlock(p, b, i - 1, scanned) ELSE scanned

-----------------------------------------------------------------------------
(* Invoke results and the entry block: lines 1139-1192 *)

\* lines 847-864: the tracked invokes, in instruction order; an invoke is its block's terminator
TrackedInvokes(p) ==
    SelectSeq([b \in 1..NumBB(p.blocks) |-> b - 1],
              LAMBDA b : Terminator(p.blocks, b).kind = "invoke"
                         /\ Tracked(p, Terminator(p.blocks, b).def))

\* lines 1140-1164
RECURSIVE ScanInvokes(_, _, _, _, _)
ScanInvokes(p, idx, acc, invs, k) ==
    IF k > Len(invs) THEN acc
    ELSE LET ii == Terminator(p.blocks, invs[k])
             a1 == IF ii.succs[1] = idx
                   THEN [DefinitionOp(p, acc, ii.def, NoAnchor, idx, invs[k])
                            EXCEPT !.ending_refs = OMErase(@, ii.def)]
                   ELSE acc
         IN ScanInvokes(p, idx, a1, invs, k + 1)

EntryBlock == 0

EntryValueAny(p, v) == TRUE

\* lines 1171-1186
EntryValueOk(p, v) ==
    /\ p.vars[v].kind \in {"arg", "global", "const"}
    /\ RefTypeOf(p, v) = BORROWED

\* lines 1168-1190
EntryIncrefs(p, acc) ==
    [k \in 1..Len(acc.ending_refs) |->
        RefOp(acc.ending_refs[k].k, NullableOf(p, acc.ending_refs[k].k), acc.ending_refs[k].n,
              NoAnchor, EntryBlock, NoBlock)]

\* lines 1167-1192
ScanEntry(p, idx, acc) ==
    IF idx = EntryBlock
    THEN LET bad == \E e \in Range(acc.ending_refs) : e.n = 0 \/ ~EntryValueOk(p, e.k)
             a1 == IF bad THEN Fail(acc, "value live at entry is not a borrowed argument, global or constant")
                   ELSE acc
         IN [a1 EXCEPT !.increfs = @ \o EntryIncrefs(p, acc), !.ending_refs = <<>>]
    ELSE acc

\* lines 888-1192: the new RefState of block idx (with the assertion that failed, if any)
ProcessBlock(p, sts, idx) ==
    ScanEntry(p, idx,
        ScanInvokes(p, idx,
            ScanBlock(p, idx, Len(p.blocks[idx]), MergeFromSuccessors(p, sts, idx)),
            TrackedInvokes(p), 1))

StripErr(acc) ==
    [been_run |-> acc.been_run, starting_refs |-> acc.starting_refs,
     ending_refs |-> acc.ending_refs, increfs |-> acc.increfs, decrefs |-> acc.decrefs,
     cxx_fixups |-> acc.cxx_fixups]

-----------------------------------------------------------------------------
(* findInsertionPoint and remapPhis: lines 126-199 *)

MapGet(f, k, d) == IF k \in DOMAIN f THEN f[k] ELSE d

MapPut(f, k, v) == [x \in (DOMAIN f) \cup {k} |-> IF x = k THEN v ELSE f[x]]

EmptyMap == [x \in {} |-> 0]

CacheKey(BB, from_bb) == <<BB, from_bb>>

\* lines 133-136: the first incoming entry for from_block, if any, now names new_from_block
RemapOnePhi(phi, from_block, new_from_block) ==
    IF from_block \in Range(phi.inc)
    THEN LET idx == SetMin({j \in 1..Len(phi.inc) : phi.inc[j] = from_block})
         IN [phi EXCEPT !.inc[idx] = new_from_block]
    ELSE phi

\* lines 126-138: the phis at the head of in_block
remapPhis(blocks, in_block, from_block, new_from_block) ==
    LET body == blocks[in_block]
        firstOther == SetMin({j \in 1..Len(body) : body[j].kind # "phi"})
    IN [blocks EXCEPT ![in_block] =
           [j \in 1..Len(body) |->
               IF j < firstOther THEN RemapOnePhi(body[j], from_block, new_from_block)
               ELSE body[j]]]

\* lines 160-174: the terminator of from_bb now branches to the breaker block
RetargetTerminator(term, BB, breaker) ==
    IF term.kind = "br" THEN [term EXCEPT !.succs[1] = IF @ = BB THEN breaker ELSE @]
    ELSE IF term.kind = "condbr"
    THEN [term EXCEPT !.succs[1] = IF @ = BB THEN breaker ELSE @,
                      !.succs[2] = IF @ = BB THEN breaker ELSE @]
    ELSE IF term.kind = "invoke" THEN [term EXCEPT !.succs[1] = IF @ = BB THEN breaker ELSE @]
    ELSE term

RetargetErrorIgnoresUnwind(term, BB) ==
    IF term.kind \in {"br", "condbr", "invoke"} THEN "" ELSE "unhandled terminator type"

\* lines 160-174: the terminators the breaker code cannot retarget
RetargetError(term, BB) ==
    IF term.kind \in {"br", "condbr"} THEN ""
    ELSE IF term.kind = "invoke"
    THEN IF term.succs[2] = BB THEN "don't know how break critical unwind edges" ELSE ""
    ELSE "unhandled terminator type"

\* lines 152-180: break the edge from_bb -> BB with a new block
BreakEdge(blocks, BB, from_bb) ==
    LET breaker == NumBB(blocks)
        term == Terminator(blocks, from_bb)
        withBreaker == [b \in (DOMAIN blocks) \cup {breaker} |->
                           IF b = breaker THEN <<[Br(BB, <<>>) EXCEPT !.made = breaker + 1]>>
                           ELSE IF b = from_bb
                           THEN [blocks[b] EXCEPT ![Len(blocks[b])] = RetargetTerminator(term, BB, breaker)]
                           ELSE blocks[b]]
    IN [blocks |-> remapPhis(withBreaker, BB, from_bb, breaker),
        pt |-> Anchor(breaker, 1),
        err |-> RetargetError(term, BB)]

\* lines 185-187: the iterator is stepped three times
LandingPadSkip == 3

\* the iterator of block BB at instruction i stepped n times: past the last instruction it
\* stands at the end of the list, position Len + 1, and the next step takes it to the first
\* instruction
RECURSIVE Stepped(_, _, _, _)
Stepped(blocks, BB, i, n) ==
    IF n = 0 THEN i
    ELSE Stepped(blocks, BB, IF i > Len(blocks[BB]) THEN 1 ELSE i + 1, n - 1)

\* lines 182-198: the insertion point inside BB; the steps past a landing pad are not
\* checked against the length of the block
PointInBlock(blocks, BB) ==
    IF blocks[BB][1].kind = "landingpad" THEN Anchor(BB, Stepped(blocks, BB, 1, LandingPadSkip))
    ELSE Anchor(BB, SetMin({j \in 1..Len(blocks[BB]) : blocks[BB][j].kind \notin {"phi", "alloca"}}))

NeedsBreakerNever(blocks, BB) == FALSE

\* line 152
NeedsBreaker(blocks, BB) == numPredecessors(blocks, BB) > 1

\* lines 141-199; m = [blocks, cache, err]
findInsertionPoint(m, BB, from_bb) ==
    IF m.err # "" THEN m
    ELSE IF BB = NoBlock THEN [m EXCEPT !.err = "BB"]
    ELSE IF BB = from_bb THEN [m EXCEPT !.err = "insertion block is its own from block"]
    ELSE IF CacheKey(BB, from_bb) \in DOMAIN m.cache THEN m
    ELSE IF NeedsBreaker(m.blocks, BB)
    THEN IF from_bb = NoBlock
         THEN [m EXCEPT !.err = "Don't know how to break the critical edge"]
         ELSE LET r == BreakEdge(m.blocks, BB, from_bb)
              IN IF r.err # "" THEN [m EXCEPT !.err = r.err]
                 ELSE [m EXCEPT !.blocks = r.blocks,
                                !.cache = MapPut(@, CacheKey(BB, from_bb), r.pt)]
    ELSE [m EXCEPT !.cache = MapPut(@, CacheKey(BB, from_bb), PointInBlock(m.blocks, BB))]

\* lines 1214-1223: the edge-sited ops of one op list, in order
RECURSIVE FindPoints(_, _, _)
FindPoints(m, ops, k) ==
    IF k > Len(ops) THEN m
    ELSE IF ops[k].insertion_inst # NoAnchor THEN FindPoints(m, ops, k + 1)
    ELSE FindPoints(findInsertionPoint(m, ops[k].insertion_bb, ops[k].insertion_from_bb), ops, k + 1)

\* lines 1213-1223: one iteration of the first loop over the blocks
FindBlockPoints(m, st) == FindPoints(FindPoints(m, st.increfs, 1), st.decrefs, 1)

-----------------------------------------------------------------------------
(* Emission: lines 1228-1248, addIncrefs, addDecrefs, addCXXFixup *)

\* lines 1232-1234, 1239-1241: the instruction the op is inserted before
InsertionPt(c, op) ==
    IF op.insertion_inst # NoAnchor THEN op.insertion_inst
    ELSE c[CacheKey(op.insertion_bb, op.insertion_from_bb)]

\* the instructions addIncrefs or addDecrefs made for op; made is the iteration of the second
\* loop that created them
Emitted(kind, op, cur) ==
    [kind |-> kind, v |-> op.operand, n |-> op.num_refs, nullable |-> op.nullable, made |-> cur]

\* lines 1245-1247: the calls that got a fixup, in the order the second pass made them
FixupsInOrder(sts) ==
    Flatten([b \in 1..Cardinality(DOMAIN sts) |->
                [k \in 1..Len(sts[b - 1].cxx_fixups) |-> sts[b - 1].cxx_fixups[k].inst]])

\* the fixups made after the fixup of the call at a
FixupsMadeAfter(sts, fx, a) ==
    LET order == FixupsInOrder(sts)
    IN {order[j] : j \in {j \in 1..Len(order) :
                             order[j] \in DOMAIN fx /\ \E i \in 1..(j - 1) : order[i] = a}}

PlannedOp(sts, t) == IF t[2] = "inc" THEN sts[t[1]].increfs[t[3]] ELSE sts[t[1]].decrefs[t[3]]

\* the ops inserted into the fixup block of the call at a are kept under this key
InPad(a) == <<a[1], a[2], 0>>

\* the ops in the list at q that were made after the call at a was erased: the fixup of a
\* was made at the end of iteration a[1] of the second loop (line 1245), so these are the ops
\* of the later iterations, wherever they were inserted
MadeAfterFixup(e, q, a) == {i \in 1..Len(e.emitted[q]) : e.emitted[q][i].made > a[1]}

\* lines 1231-1242 after lines 395-401: the insertion point is the call at a, which a fixup
\* has replaced and erased. Inserting at it is undefined: the pass stops, or the op lands
\* nowhere, or it lands in front of an instruction made after the erasure, which the
\* allocator may have put at the address of the erased call: an op emitted since, in
\* whatever list it stands, the invoke of a later fixup, or the fixup block of this or a
\* later fixup
StaleOutcomes(e, sts, a) ==
    {[how |-> "stopped", at |-> NoAnchor, i |-> 0], [how |-> "lost", at |-> NoAnchor, i |-> 0]}
    \cup UNION {{[how |-> "front", at |-> q, i |-> i] : i \in MadeAfterFixup(e, q, a)} :
                q \in DOMAIN e.emitted}
    \cup {[how |-> "invoke", at |-> b, i |-> 0] : b \in FixupsMadeAfter(sts, e.fixups, a)}
    \cup {[how |-> "pad", at |-> InPad(b), i |-> 0] : b \in {a} \cup FixupsMadeAfter(sts, e.fixups, a)}

InsertAt(s, i, x) == SubSeq(s, 1, i - 1) \o <<x>> \o SubSeq(s, i, Len(s))

\* the op rec inserted at an erased insertion point, with the outcome l: in front of op i of
\* the list at l.at, or in front of the invoke or of the landing pad, behind the ops that
\* stand in front of it already
Land(e, l, rec) ==
    IF l.how = "stopped" THEN [e EXCEPT !.err = "insertion point was erased"]
    ELSE IF l.how = "lost" THEN e
    ELSE IF l.how = "front" THEN [e EXCEPT !.emitted[l.at] = InsertAt(@, l.i, rec)]
    ELSE [e EXCEPT !.emitted = MapPut(@, l.at, Append(MapGet(@, l.at, <<>>), rec))]

\* lines 188-189: the insertion point is the end of the list of its block, which is no
\* instruction
AtListEnd(blocks, pt) == pt[1] \in DOMAIN blocks /\ pt[2] > Len(blocks[pt[1]])

\* lines 219 and 278 with the end of the list as insertion point: the builder reads the
\* parent block of something that is no instruction, which is undefined; the pass stops, or
\* the op is linked in at the end of the list, behind the terminator
ListEndOutcomes(e, pt, rec) ==
    {[e EXCEPT !.err = "insertion point is the end of the list"],
     [e EXCEPT !.emitted = MapPut(@, pt, Append(MapGet(@, pt, <<>>), rec))]}

\* lines 208-217 and 262-276: what addIncrefs and addDecrefs check before they insert
\* anything; "return" stands for the early return on a null constant
BeforeInserting(p, kind, op) ==
    LET isNull == op.operand \in DOMAIN p.vars /\ p.vars[op.operand].kind = "null"
    IN IF kind = "dec" /\ op.num_refs > 1 THEN "Whoa more than one decref??"
       ELSE IF isNull /\ ~op.nullable THEN "nullable"
       ELSE IF isNull THEN "return"
       ELSE IF op.num_refs <= 0 THEN "num_refs > 0"
       ELSE ""

\* lines 1230-1243, one op: e = [emitted, fixups, err]; the results it can have
EmitOp(e, p, c, sts, cur, kind, k) ==
    LET op == PlannedOp(sts, <<cur, kind, k>>)
        pt == InsertionPt(c, op)
        rec == Emitted(kind, op, cur)
        bad == BeforeInserting(p, kind, op)
    IN IF e.err # "" THEN {e}
       ELSE IF bad = "return" THEN {e}
       ELSE IF bad # "" THEN {[e EXCEPT !.err = bad]}
       ELSE IF pt \in DOMAIN e.fixups THEN {Land(e, l, rec) : l \in StaleOutcomes(e, sts, pt)}
       ELSE IF AtListEnd(p.blocks, pt) THEN ListEndOutcomes(e, pt, rec)
       ELSE {[e EXCEPT !.emitted = MapPut(@, pt, Append(MapGet(@, pt, <<>>), rec))]}

\* lines 1230-1243: the ops of one list of block cur from op k on; E is the set of results
\* the ops before them can have had
RECURSIVE EmitOps(_, _, _, _, _, _, _)
EmitOps(E, p, c, sts, cur, kind, k) ==
    IF k > Len(IF kind = "inc" THEN sts[cur].increfs ELSE sts[cur].decrefs) THEN E
    ELSE EmitOps(UNION {EmitOp(e, p, c, sts, cur, kind, k) : e \in E}, p, c, sts, cur, kind, k + 1)

\* lines 1245-1247 and 374-422
RECURSIVE EmitFixups(_, _, _, _)
EmitFixups(e, blocks, fx, k) ==
    IF k > Len(fx) THEN e
    ELSE LET at == fx[k].inst
             e1 == IF e.err # "" THEN e
                   ELSE IF blocks[at[1]][at[2]].kind # "call"
                   THEN [e EXCEPT !.err = "don't need a fixup here!"]
                   ELSE [e EXCEPT !.fixups = MapPut(@, at, fx[k].to_decref)]
         IN EmitFixups(e1, blocks, fx, k + 1)

\* lines 1229-1247: one iteration of the second loop over the blocks, and the results it can
\* have
EmitBlock(e, p, c, sts, cur) ==
    {EmitFixups(e2, p.blocks, sts[cur].cxx_fixups, 1) :
        e2 \in EmitOps(EmitOps({e}, p, c, sts, cur, "inc", 1), p, c, sts, cur, "dec", 1)}

-----------------------------------------------------------------------------
(* The yield rewrite: lines 849-856 and 1250-1280 *)

\* lines 849-856: the yield call sites, in instruction order
Yields(p) ==
    Flatten([b \in 1..NumBB(p.blocks) |->
                SelectSeq([i \in 1..Len(p.blocks[b - 1]) |-> Anchor(b - 1, i)],
                          LAMBDA a : p.blocks[a[1]][a[2]].yield)])

\* addIncrefs (lines 225-227) and addDecrefs (lines 281-283) split the block at the insertion
\* point of a nullable op, and addCXXFixup (line 386) splits it at the call: the instruction
\* at position i of block b has then moved to a block created after BBGraph was built
MovedToNewBlock(em, fx, b, i) ==
    \E j \in 1..i :
        \/ \E o \in Range(MapGet(em, Anchor(b, j), <<>>)) : o.nullable
        \/ j < i /\ Anchor(b, j) \in DOMAIN fx

\* line 1255: states[bbg.bb_idx[old_yield->getParent()]]; bb_idx is a DenseMap whose
\* operator[] answers 0 for a block it does not know. A yield that got a fixup was replaced
\* by an invoke and erased (lines 395-402): reading it is undefined, so the pass may stop
\* (NoBlock) or go on with the state of any block
YieldStateChoices(p, em, fx, at) ==
    IF at \in DOMAIN fx THEN {NoBlock} \cup DOMAIN p.blocks
    ELSE IF MovedToNewBlock(em, fx, at[1], at[2]) THEN {0}
    ELSE {at[1]}

\* the yield call sites the loop of lines 1254-1280 has replaced and erased so far
RewrittenYields(p, irr) == SelectSeq(Yields(p), LAMBDA a : irr[a[1]][a[2]].rewritten)

\* lines 393-401 and 1277-1279: a call that got a fixup was replaced by an invoke and erased,
\* and a yield call that was rewritten was replaced by the new call and erased; ending_refs
\* still holds the erased call as its key, and rt->vars no longer knows that key
ErasedValue(p, fx, irr, v) ==
    \/ \E a \in DOMAIN fx : p.blocks[a[1]][a[2]].def = v
    \/ \E a \in Range(RewrittenYields(p, irr)) : irr[a[1]][a[2]].def = v

\* the tracked values whose instruction was created after the call that defined v was erased,
\* and so may stand at the address the key of v still holds: the invokes of the fixups made
\* later (line 395) and the yield calls made later (line 1271)
MadeAfterErased(p, fx, sts, irr, v) ==
    LET yields == RewrittenYields(p, irr)
        DefAt(a) == p.blocks[a[1]][a[2]].def
        invokes == UNION {{DefAt(b) : b \in FixupsMadeAfter(sts, fx, a)} :
                          a \in {a \in DOMAIN fx : DefAt(a) = v}}
        calls == IF \E a \in DOMAIN fx : DefAt(a) = v
                 THEN {DefAt(yields[j]) : j \in 1..Len(yields)}
                 ELSE {DefAt(yields[j]) : j \in {j \in 1..Len(yields) :
                          \E i \in 1..(j - 1) : DefAt(yields[i]) = v}}
    IN {x \in invokes \cup calls : x # v /\ Tracked(p, x)}

\* line 1265: rt->vars.lookup(ref.first) on a key that is an erased call reads freed memory:
\* the key is not found (NoVal), or it is found as a value made after the erasure; two keys
\* are not found as the same value
DanglingLookups(p, fx, sts, irr, st) ==
    LET keys == {v \in Range(OMKeys(st.ending_refs)) : ErasedValue(p, fx, irr, v)}
    IN {found \in [keys -> {NoVal} \cup UNION {MadeAfterErased(p, fx, sts, irr, v) : v \in keys}] :
           /\ \A v \in keys : found[v] = NoVal \/ found[v] \in MadeAfterErased(p, fx, sts, irr, v)
           /\ \A v, u \in keys : found[v] = found[u] => (v = u \/ found[v] = NoVal)}

\* lines 1264-1269: the keys of ending_refs that rt->vars.lookup finds OWNED, other than the
\* yielded value; found is what the lookup of the erased keys gave
YieldLiveValues(p, st, old_yield, found) ==
    LET keys == OMKeys(st.ending_refs)
        seen == [i \in 1..Len(keys) |->
                    IF keys[i] \in DOMAIN found THEN found[keys[i]] ELSE keys[i]]
    IN SelectSeq(seen, LAMBDA v : IF v = NoVal THEN FALSE
                                  ELSE RefTypeOf(p, v) = OWNED /\ v # old_yield.ops[2])

\* lines 1257-1279: the call is left as it is when nothing is live, and otherwise replaced by
\* a call that also passes the number of live values and the live values
RewriteYield(p, st, old_yield, found) ==
    IF YieldLiveValues(p, st, old_yield, found) = <<>> THEN old_yield
    ELSE [old_yield EXCEPT !.rewritten = TRUE, !.live = YieldLiveValues(p, st, old_yield, found)]

-----------------------------------------------------------------------------
(* The input functions the pass is run on *)

\* the largest number of references one generated instruction consumes
MaxConsume == 1

Rep(v, k) == [j \in 1..k |-> v]

OwnedInst == Var(OWNED, FALSE, "inst")

BorrowedArg == Var(BORROWED, FALSE, "arg")

Use(v) == Call(NoVal, <<v>>, <<>>, <<>>, FALSE)

Consume(v) == Call(NoVal, <<v>>, <<v>>, <<>>, FALSE)

Def(v) == Call(v, <<>>, <<>>, <<>>, FALSE)

CatchPad == <<LandingPad, Other, Other>>

\* scenario 1 of the spec: v = f(); g(v) consumes; return
StraightConsume ==
    Program("straight_consume", << <<Def("v"), Consume("v"), Ret(<<>>, <<>>)>> >>, "v" :> OwnedInst)

\* scenario 2: g uses v without consuming
StraightUse ==
    Program("straight_use", << <<Def("v"), Use("v"), Ret(<<>>, <<>>)>> >>, "v" :> OwnedInst)

\* scenario 3: entry defines v and branches; the left arm consumes v, the right arm does not use it
DiamondScenario ==
    Program("diamond",
            << <<Def("v"), CondBr(1, 2, <<>>)>>,
               <<Consume("v"), Br(3, <<>>)>>,
               <<Other, Br(3, <<>>)>>,
               <<Ret(<<>>, <<>>)>> >>,
            "v" :> OwnedInst)

\* scenario 4: header phi v merges an initial owned value and a recomputed one; the body uses v
LoopScenario ==
    Program("loop",
            << <<Def("a"), Br(1, <<"a">>)>>,
               <<Phi("v", <<0, 2>>), CondBr(2, 3, <<>>)>>,
               <<Use("v"), Def("b"), Br(1, <<"b">>)>>,
               <<Ret(<<>>, <<>>)>> >>,
            "a" :> OwnedInst @@ "b" :> OwnedInst @@ "v" :> OwnedInst)

\* scenario 5: u and v live across a call that may raise
MayRaiseScenario ==
    Program("mayraise",
            << <<Def("u"), Def("v"), Call(NoVal, <<"u", "v">>, <<>>, <<>>, TRUE),
                 Use("u"), Use("v"), Ret(<<>>, <<>>)>> >>,
            "u" :> OwnedInst @@ "v" :> OwnedInst)

\* scenario 6: a nullable borrowed parameter is returned
BorrowedReturned ==
    Program("borrowed_ret", << <<Ret(<<"x">>, <<"x">>)>> >>, "x" :> Var(BORROWED, TRUE, "arg"))

\* the last use of v is an invoke
InvokeLastUse ==
    Program("invoke_use",
            << <<Def("v"), Invoke(NoVal, <<"v">>, <<>>, <<>>, 1, 2)>>,
               <<Ret(<<>>, <<>>)>>,
               CatchPad \o <<Other, Ret(<<>>, <<>>)>> >>,
            "v" :> OwnedInst)

\* an invoke defines w
InvokeDefines ==
    Program("invoke_def",
            << <<Invoke("w", <<>>, <<>>, <<>>, 1, 2)>>,
               <<Use("w"), Ret(<<>>, <<>>)>>,
               CatchPad \o <<Other, Ret(<<>>, <<>>)>> >>,
            "w" :> OwnedInst)

\* an invoke defines w, which nothing uses
InvokeResultUnused ==
    Program("invoke_def_unused",
            << <<Invoke("w", <<>>, <<>>, <<>>, 1, 2)>>,
               <<Other, Ret(<<>>, <<>>)>>,
               CatchPad \o <<Other, Ret(<<>>, <<>>)>> >>,
            "w" :> OwnedInst)

\* two loops that both leave to the same exit: their headers tie as cycle seeds
TwoLoops ==
    Program("two_loops",
            << <<CondBr(1, 3, <<>>)>>,
               <<Other, CondBr(2, 5, <<>>)>>,
               <<Consume("x"), Br(1, <<>>)>>,
               <<Other, CondBr(4, 5, <<>>)>>,
               <<Use("x"), Br(3, <<>>)>>,
               <<Ret(<<>>, <<>>)>> >>,
            "x" :> BorrowedArg)

\* a loop nested in a loop; the inner body consumes the borrowed x
NestedLoops ==
    Program("nested_loops",
            << <<Def("v"), Br(1, <<>>)>>,
               <<Other, CondBr(2, 5, <<>>)>>,
               <<Other, CondBr(3, 4, <<>>)>>,
               <<Consume("x"), Use("v"), Br(2, <<>>)>>,
               <<Call(NoVal, <<"v">>, <<>>, <<>>, TRUE), Br(1, <<>>)>>,
               <<Consume("v"), Ret(<<>>, <<>>)>> >>,
            "x" :> BorrowedArg @@ "v" :> OwnedInst)

\* a one-block loop that consumes the borrowed x on every iteration
SelfLoop ==
    Program("self_loop",
            << <<Br(1, <<>>)>>,
               <<Consume("x"), CondBr(1, 2, <<>>)>>,
               <<Ret(<<>>, <<>>)>> >>,
            "x" :> BorrowedArg)

\* two invokes unwind to the same landing pad; v is live across the first only on its normal edge
CriticalUnwind ==
    Program("critical_unwind",
            << <<Def("v"), Invoke(NoVal, <<>>, <<>>, <<>>, 1, 2)>>,
               <<Invoke(NoVal, <<"v">>, <<>>, <<>>, 3, 2)>>,
               CatchPad \o <<Other, Ret(<<>>, <<>>)>>,
               <<Ret(<<>>, <<>>)>> >>,
            "v" :> OwnedInst)

\* a loop with no way out
NoExitLoop ==
    Program("no_exit",
            << <<CondBr(1, 2, <<>>)>>,
               <<Other, Br(1, <<>>)>>,
               <<Ret(<<>>, <<>>)>> >>,
            "x" :> BorrowedArg)

\* a call that always raises, followed by unreachable
UnreachableTail ==
    Program("unreachable_tail",
            << <<Def("v"), Call(NoVal, <<"v">>, <<>>, <<>>, TRUE), Unreachable>> >>,
            "v" :> OwnedInst)

\* an owned value that reaches the entry block undefined
UseBeforeDef ==
    Program("use_before_def",
            << <<CondBr(1, 2, <<>>)>>,
               <<Def("v"), Br(2, <<>>)>>,
               <<Use("v"), Ret(<<>>, <<>>)>> >>,
            "v" :> OwnedInst)

\* a triangle: the edge 0 -> 2 is critical, the edge 0 -> 1 is not, and both get an op
CriticalEdge ==
    Program("critical_edge",
            << <<Def("v"), CondBr(1, 2, <<>>)>>,
               <<Use("v"), Consume("u"), Br(2, <<>>)>>,
               <<Phi(NoVal, <<0, 1>>), Ret(<<>>, <<>>)>> >>,
            "v" :> OwnedInst @@ "u" :> BorrowedArg)

\* a yield at the head of a block, with OWNED v and w and the BORROWED x live across it
YieldScenario ==
    Program("yield",
            << <<Def("v"), Def("w"), Def("y"), Br(1, <<>>)>>,
               <<Yield("r", <<"gen", "y", NoVal>>, <<"y">>), Use("v"), Use("w"), Consume("x"),
                 Use("r"), Ret(<<>>, <<>>)>> >>,
            "v" :> OwnedInst @@ "w" :> OwnedInst @@ "y" :> OwnedInst @@ "r" :> OwnedInst
                @@ "x" :> BorrowedArg)

\* the nullable v dies on the edge into the block of the yield; w is live across the yield
YieldAfterNullableDecref ==
    Program("yield_nullable_decref",
            << <<Def("v"), Def("w"), Def("y"), CondBr(1, 2, <<>>)>>,
               <<Yield(NoVal, <<"gen", "y", NoVal>>, <<"y">>), Use("w"), Ret(<<>>, <<>>)>>,
               <<Use("v"), Consume("y"), Use("w"), Ret(<<>>, <<>>)>> >>,
            "v" :> Var(OWNED, TRUE, "inst") @@ "w" :> OwnedInst @@ "y" :> OwnedInst)

\* a yield call that is marked may-raise, with w live across it
YieldMayRaise ==
    Program("yield_may_raise",
            << <<Def("w"), Def("y"), Br(1, <<>>)>>,
               <<[Yield(NoVal, <<"gen", "y", NoVal>>, <<"y">>) EXCEPT !.may_throw = TRUE],
                 Use("w"), Ret(<<>>, <<>>)>> >>,
            "w" :> OwnedInst @@ "y" :> OwnedInst)

\* u is defined by a call that may raise while w is live, and is itself live across the yield
YieldLiveMayThrowDef ==
    Program("yield_live_maythrow_def",
            << <<Def("w"), Call("u", <<>>, <<>>, <<>>, TRUE), Def("y"), Br(1, <<>>)>>,
               <<Yield(NoVal, <<"gen", "y", NoVal>>, <<"y">>), Use("u"), Use("w"),
                 Ret(<<>>, <<>>)>> >>,
            "u" :> OwnedInst @@ "w" :> OwnedInst @@ "y" :> OwnedInst)

\* z and u are defined by calls that may raise while w is live, and are live across the yield
YieldLiveTwoMayThrowDefs ==
    Program("yield_live_two_maythrow_defs",
            << <<Def("w"), Call("z", <<>>, <<>>, <<>>, TRUE), Call("u", <<>>, <<>>, <<>>, TRUE),
                 Def("y"), Br(1, <<>>)>>,
               <<Yield(NoVal, <<"gen", "y", NoVal>>, <<"y">>), Use("u"), Use("z"), Use("w"),
                 Ret(<<>>, <<>>)>> >>,
            "u" :> OwnedInst @@ "w" :> OwnedInst @@ "y" :> OwnedInst @@ "z" :> OwnedInst)

\* the result r of the first yield is live across the second yield
TwoYields ==
    Program("two_yields",
            << <<Def("w"), Def("y1"), Def("y2"), Br(1, <<>>)>>,
               <<Yield("r", <<"gen", "y1", NoVal>>, <<"y1">>), Br(2, <<>>)>>,
               <<Yield("r2", <<"gen", "y2", NoVal>>, <<"y2">>), Use("r"), Use("w"),
                 Ret(<<>>, <<>>)>> >>,
            "r" :> OwnedInst @@ "r2" :> OwnedInst @@ "w" :> OwnedInst @@ "y1" :> OwnedInst
                @@ "y2" :> OwnedInst)

\* a loop whose header inherits a and b from the exit block 3 in the order b, a on its
\* first run, and from the loop body, which took them from the exit block 4, in the order
\* a, b when it is run again
OrderFlip ==
    Program("order_flip",
            << <<Def("a"), Def("b"), Br(1, <<>>)>>,
               <<CondBr(2, 3, <<>>)>>,
               <<CondBr(4, 1, <<>>)>>,
               <<Consume("a"), Consume("b"), Ret(<<>>, <<>>)>>,
               <<Consume("b"), Consume("a"), Ret(<<>>, <<>>)>> >>,
            "a" :> OwnedInst @@ "b" :> OwnedInst)

\* x is a phi of a and b, followed by a phi that is not reference counted, and is handed
\* off twice
PhiDefinition ==
    Program("phi_definition",
            << <<CondBr(1, 2, <<>>)>>,
               <<Def("a"), Br(3, <<"a">>)>>,
               <<Def("b"), Br(3, <<"b">>)>>,
               <<Phi("x", <<1, 2>>), Phi(NoVal, <<1, 2>>), Consume("x"), Consume("x"),
                 Ret(<<>>, <<>>)>> >>,
            "a" :> OwnedInst @@ "b" :> OwnedInst @@ "x" :> OwnedInst)

\* a call that may raise, after which the OWNED v is handed off twice and the BORROWED
\* argument x once
FlushScenario ==
    Program("flush",
            << <<Def("v"), Call(NoVal, <<>>, <<>>, <<>>, TRUE), Consume("v"), Consume("v"),
                 Consume("x"), Ret(<<>>, <<>>)>> >>,
            "v" :> OwnedInst @@ "x" :> BorrowedArg)

\* block 1 starts with a call that may raise while u is live, so it gets a fixup; block 2,
\* which is emitted later, releases v on its edge to block 1, whose insertion point is that call
StaleEdgePoint ==
    Program("stale_edge_point",
            << <<Def("u"), Def("v"), Br(2, <<>>)>>,
               <<Call(NoVal, <<>>, <<>>, <<>>, TRUE), Use("u"), Ret(<<>>, <<>>)>>,
               <<CondBr(1, 3, <<>>)>>,
               <<Use("v"), Ret(<<>>, <<>>)>> >>,
            "u" :> OwnedInst @@ "v" :> OwnedInst)

\* an invoke that is marked may-raise while both its destinations hand the OWNED v off twice
MayRaiseTerminator ==
    Program("may_raise_terminator",
            << <<Def("v"), [Invoke(NoVal, <<>>, <<>>, <<>>, 1, 2) EXCEPT !.may_throw = TRUE]>>,
               <<Consume("v"), Consume("v"), Ret(<<>>, <<>>)>>,
               CatchPad \o <<Consume("v"), Consume("v"), Ret(<<>>, <<>>)>> >>,
            "v" :> OwnedInst)

\* v dies on the unwind edge of the invoke, into a landing pad block of n instructions
ShortPad(n) ==
    Program(IF n = 2 THEN "short_pad_2" ELSE "short_pad_3",
            << <<Def("v"), Invoke(NoVal, <<>>, <<>>, <<>>, 1, 2)>>,
               <<Consume("v"), Ret(<<>>, <<>>)>>,
               <<LandingPad>> \o [i \in 1..(n - 2) |-> Other] \o <<Ret(<<>>, <<>>)>> >>,
            "v" :> OwnedInst)

\* blocks 1 and 2 start with a call that may raise while u is live, so both calls get a
\* fixup; blocks 3 and 4, which are emitted later, release v on their edges to them
TwoStalePoints ==
    Program("two_stale_points",
            << <<Def("u"), Def("v"), Br(3, <<>>)>>,
               <<Call(NoVal, <<>>, <<>>, <<>>, TRUE), Use("u"), Ret(<<>>, <<>>)>>,
               <<Call(NoVal, <<>>, <<>>, <<>>, TRUE), Use("u"), Ret(<<>>, <<>>)>>,
               <<CondBr(1, 4, <<>>)>>,
               <<CondBr(2, 5, <<>>)>>,
               <<Use("u"), Use("v"), Ret(<<>>, <<>>)>> >>,
            "u" :> OwnedInst @@ "v" :> OwnedInst)

\* blocks 1, 2 and 3 tie as cycle seeds with two branches to the exit each; blocks 2, 3
\* and 4 are on a cycle and block 1 is reached from the entry only. The first sort picks 2
\* when it leaves them as 1, 2, 3; the entry is the next seed, and the third sort then picks
\* 1 when it leaves 3 in front of 1
TieRounds ==
    Program("tie_rounds",
            << <<CondBr(1, 2, <<>>)>>,
               <<Switch(1, 5, 5)>>,
               <<Switch(3, 5, 5)>>,
               <<Switch(4, 5, 5)>>,
               <<CondBr(4, 2, <<>>)>>,
               <<Ret(<<>>, <<>>)>> >>,
            "x" :> BorrowedArg)

FixedPrograms ==
    {TieRounds, TwoStalePoints, MayRaiseTerminator, ShortPad(2), ShortPad(3), StaleEdgePoint, YieldLiveMayThrowDef, YieldLiveTwoMayThrowDefs, TwoYields, FlushScenario, PhiDefinition, OrderFlip, YieldScenario, YieldAfterNullableDecref, YieldMayRaise, StraightConsume, StraightUse, DiamondScenario, LoopScenario, MayRaiseScenario,
     BorrowedReturned, InvokeLastUse, InvokeDefines, InvokeResultUnused, TwoLoops,
     NestedLoops, SelfLoop, CriticalUnwind, NoExitLoop, UnreachableTail, UseBeforeDef, CriticalEdge}

\* what a generated block does with v: nothing, use, use by a call that may raise,
\* consume by a call that may raise, a call that may raise, consume 1..MaxConsume times
SNone == <<"none", 0>>

SUse == <<"use", 0>>

SRaiseUse == <<"raise_use", 0>>

SRaiseConsume == <<"raise_consume", 0>>

SRaise == <<"raise", 0>>

SConsume(k) == <<"consume", k>>

Snippets ==
    {SNone, SUse, SRaiseUse, SRaiseConsume, SRaise} \cup {SConsume(k) : k \in 1..MaxConsume}

Snippet(s) ==
    IF s = SNone THEN <<>>
    ELSE IF s = SUse THEN <<Use("v")>>
    ELSE IF s = SRaiseUse THEN <<Call(NoVal, <<"v">>, <<>>, <<>>, TRUE)>>
    ELSE IF s = SRaiseConsume THEN <<Call(NoVal, <<"v">>, <<"v">>, <<>>, TRUE)>>
    ELSE IF s = SRaise THEN <<Call(NoVal, <<>>, <<>>, <<>>, TRUE)>>
    ELSE <<Call(NoVal, Rep("v", s[2]), Rep("v", s[2]), <<>>, FALSE)>>

\* the terminator of a generated invoke block: the snippet's call made an invoke
SnippetInvoke(s, normal, unwind) ==
    IF s = SNone THEN Invoke(NoVal, <<>>, <<>>, <<>>, normal, unwind)
    ELSE Invoke(NoVal, Snippet(s)[1].ops, Snippet(s)[1].consumed, <<>>, normal, unwind)

\* v is an OWNED call result, a BORROWED argument or a BORROWED call result
ValueKinds == {"owned", "arg", "borrowed"}

EntryDef(vk) == IF vk = "arg" THEN <<Other>> ELSE <<Def("v")>>

VarsOf(vk) ==
    IF vk = "owned" THEN "v" :> OwnedInst
    ELSE IF vk = "arg" THEN "v" :> BorrowedArg
    ELSE "v" :> Var(BORROWED, FALSE, "inst")

\* a phi of a value that is not reference counted
PlainPhi(inc) == Phi(NoVal, inc)

GenDiamond(vk, s1, s2, s3) ==
    ProgramOf(<<"gen_diamond", vk, s1, s2, s3>>,
            << EntryDef(vk) \o <<CondBr(1, 2, <<>>)>>,
               Snippet(s1) \o <<Br(3, <<>>)>>,
               Snippet(s2) \o <<Br(3, <<>>)>>,
               Snippet(s3) \o <<Ret(<<>>, <<>>)>> >>,
            VarsOf(vk))

GenLoop(vk, s1, s2, s3) ==
    ProgramOf(<<"gen_loop", vk, s1, s2, s3>>,
            << EntryDef(vk) \o <<Br(1, <<>>)>>,
               <<PlainPhi(<<0, 2>>)>> \o Snippet(s1) \o <<CondBr(2, 3, <<>>)>>,
               Snippet(s2) \o <<Br(1, <<>>)>>,
               Snippet(s3) \o <<Ret(<<>>, <<>>)>> >>,
            VarsOf(vk))

\* the edge 0 -> 2 is critical
GenTriangle(vk, s1, s2, s3) ==
    ProgramOf(<<"gen_triangle", vk, s1, s2, s3>>,
            << EntryDef(vk) \o Snippet(s1) \o <<CondBr(1, 2, <<>>)>>,
               Snippet(s2) \o <<Br(2, <<>>)>>,
               <<PlainPhi(<<0, 1>>)>> \o Snippet(s3) \o <<Ret(<<>>, <<>>)>> >>,
            VarsOf(vk))

GenInvoke(vk, s1, s2, s3) ==
    ProgramOf(<<"gen_invoke", vk, s1, s2, s3>>,
            << EntryDef(vk) \o <<SnippetInvoke(s1, 1, 2)>>,
               Snippet(s2) \o <<Ret(<<>>, <<>>)>>,
               CatchPad \o Snippet(s3) \o <<Ret(<<>>, <<>>)>> >>,
            VarsOf(vk))

\* block 1 branches back to itself
GenSelfLoop(vk, s1, s2, s3) ==
    ProgramOf(<<"gen_self_loop", vk, s1, s2, s3>>,
            << EntryDef(vk) \o <<Br(1, <<>>)>>,
               <<PlainPhi(<<0, 1>>)>> \o Snippet(s1) \o Snippet(s2) \o <<CondBr(1, 2, <<>>)>>,
               Snippet(s3) \o <<Ret(<<>>, <<>>)>> >>,
            VarsOf(vk))

\* block 1 starts with a yield of yv, which is y or v itself, and goes on with a snippet
GenYield(vk, s, yv) ==
    ProgramOf(<<"gen_yield", vk, s, <<yv, 0>>, SNone>>,
            << EntryDef(vk) \o <<Def("y"), Br(1, <<>>)>>,
               <<Yield(NoVal, <<"gen", yv, NoVal>>, <<yv>>)>> \o Snippet(s) \o <<Ret(<<>>, <<>>)>> >>,
            VarsOf(vk) @@ "y" :> OwnedInst)

GeneratedYields == {GenYield(vk, s, yv) : vk \in ValueKinds, s \in Snippets, yv \in {"y", "v"}}

GeneratedPrograms ==
    GeneratedYields \cup
    UNION {{GenDiamond(vk, s1, s2, s3), GenLoop(vk, s1, s2, s3), GenTriangle(vk, s1, s2, s3),
            GenInvoke(vk, s1, s2, s3), GenSelfLoop(vk, s1, s2, s3)} :
           vk \in ValueKinds, s1 \in Snippets, s2 \in Snippets, s3 \in Snippets}

Programs == FixedPrograms \cup GeneratedPrograms

-----------------------------------------------------------------------------
(* The walk of the rewritten function *)

\* references a walk may hold of a value, per reference an instruction may consume,
\* before the walk is abandoned
MaxHeld == 3

HeldCap == MaxHeld * MaxConsume

ZeroHeld(p) == [v \in DOMAIN p.vars |-> 0]

\* an increment or decrement inserted before the instruction the walk arrives at
RECURSIVE ApplyEmitted(_, _, _, _)
ApplyEmitted(p, w, ops, k) ==
    IF k > Len(ops) THEN w
    ELSE LET o == ops[k]
             n == IF o.kind = "inc" THEN w.held[o.v] + o.n ELSE w.held[o.v] - o.n
         IN ApplyEmitted(p, [w EXCEPT !.held[o.v] = n,
                                      !.under = @ \/ n < 0,
                                      !.revived = @ \/ (o.kind = "inc" /\ RefTypeOf(p, o.v) = OWNED
                                                          /\ w.held[o.v] <= 0)],
                         ops, k + 1)

\* control reaches instruction i of block b: what was inserted before it has executed
Arrive(p, w, em, b, i) ==
    ApplyEmitted(p, [w EXCEPT !.b = b, !.i = i], MapGet(em, Anchor(b, i), <<>>), 1)

\* the references an instruction takes from the function when it executes
Steal(p, held, I) == [v \in DOMAIN held |-> held[v] - NumConsumedByInst(I, v)]

\* the reference an OWNED value is born with
Birth(p, held, I) ==
    IF Tracked(p, I.def) /\ RefTypeOf(p, I.def) = OWNED
    THEN [held EXCEPT ![I.def] = @ + 1] ELSE held

\* xdecrefAndRethrow(exc, n, to_decref...)
Unwind(held, to_decref) == [v \in DOMAIN held |-> held[v] - Occurrences(to_decref, v)]

IdleWalk(p) ==
    [status |-> "idle", b |-> 0, i |-> 0, held |-> ZeroHeld(p), before |-> ZeroHeld(p),
     under |-> FALSE, revived |-> FALSE]

-----------------------------------------------------------------------------
(* The pass as a state machine *)

\* a run whose calls of std::sort break ties another way is a different run only when the
\* ordering differs: the runs to explore, one for every ordering the calls can lead to
TieMatters(p) == TieRuns(BBGraph(p.blocks), OrderStart(BBGraph(p.blocks)), <<>>)

\* a function whose branches were created in another order is a different input only when
\* a use-list differs
UseListMatters(p) == BBGraph(Created(p.blocks, LastFirst)) # BBGraph(Created(p.blocks, BlockOrder))

Init ==
    /\ \E p \in Programs, o \in CreationOrders :
          /\ IF o = BlockOrder THEN TRUE ELSE UseListMatters(p)
          /\ prog = CreatedIn(p, o)
    /\ tie \in TieMatters(prog)
    /\ phase = "order"
    /\ err = ""
    /\ ordering = <<>>
    /\ queue = <<>>
    /\ in_queue = [b \in DOMAIN prog.blocks |-> FALSE]
    /\ states = [b \in DOMAIN prog.blocks |-> FreshRefState]
    /\ nruns = [b \in DOMAIN prog.blocks |-> 0]
    /\ last = [idx |-> NoBlock, firsttime |-> FALSE, changed |-> FALSE, orig_ending_refs |-> <<>>]
    /\ ir = prog.blocks
    /\ cache = EmptyMap
    /\ cursor = 0
    /\ emitted = EmptyMap
    /\ fixups = EmptyMap
    /\ walk = IdleWalk(prog)

AllBlocks(p) == [b \in 1..NumBB(p.blocks) |-> b - 1]

\* lines 842-845: BlockOrderer orderer(computeTraversalOrder(bbg)); every block is added
ComputeOrder ==
    /\ phase = "order"
    /\ LET ord == computeTraversalOrder(BBGraph(prog.blocks), tie)
           r == OrdererAddAll(ord, <<>>, in_queue, AllBlocks(prog), 1)
       IN IF NoBlock \in Range(ord)
          THEN /\ phase' = "failed"
               /\ err' = "best != -1"
               /\ ordering' = ord
               /\ UNCHANGED <<queue, in_queue>>
          ELSE /\ phase' = "solve"
               /\ ordering' = ord
               /\ queue' = r.q
               /\ in_queue' = r.inq
               /\ UNCHANGED err
    /\ UNCHANGED <<prog, tie, states, nruns, last, ir, cache, cursor, emitted, fixups, walk>>

\* nruns counts the times a block was processed up to this number
MaxRuns == 6

\* lines 866-1206: one iteration of the solver loop
SolveStep ==
    /\ phase = "solve"
    /\ OrdererPop(queue) # NoBlock
    /\ LET idx == OrdererPop(queue)
           q1 == QueueWithoutTop(queue)
           inq1 == [in_queue EXCEPT ![idx] = FALSE]
           firsttime == ~states[idx].been_run
           orig_ending_refs == states[idx].ending_refs
           acc == ProcessBlock(prog, states, idx)
           changed == endingRefsDifferent(orig_ending_refs, acc.ending_refs)
           r == IF firsttime \/ changed
                THEN OrdererAddAll(ordering, q1, inq1, Predecessors(prog.blocks, idx), 1)
                ELSE [q |-> q1, inq |-> inq1]
       IN /\ states' = [states EXCEPT ![idx] = StripErr(acc)]
          /\ nruns' = [nruns EXCEPT ![idx] = IF @ < MaxRuns THEN @ + 1 ELSE @]
          /\ last' = [idx |-> idx, firsttime |-> firsttime, changed |-> changed,
                       orig_ending_refs |-> orig_ending_refs]
          /\ IF acc.err # ""
             THEN /\ phase' = "failed"
                  /\ err' = acc.err
                  /\ queue' = q1
                  /\ in_queue' = inq1
             ELSE /\ queue' = r.q
                  /\ in_queue' = r.inq
                  /\ UNCHANGED <<phase, err>>
    /\ UNCHANGED <<prog, tie, ordering, ir, cache, cursor, emitted, fixups, walk>>

\* lines 867-869: pop returns -1, the loop ends
SolveDone ==
    /\ phase = "solve"
    /\ OrdererPop(queue) = NoBlock
    /\ phase' = "find"
    /\ cursor' = 0
    /\ UNCHANGED <<prog, tie, err, ordering, queue, in_queue, states, nruns, last, ir, cache,
                   emitted, fixups, walk>>

\* lines 1212-1224: one block of the first pass, which finds the insertion points
FindStep ==
    /\ phase = "find"
    /\ cursor < NumBB(prog.blocks)
    /\ LET m == FindBlockPoints([blocks |-> ir, cache |-> cache, err |-> ""], states[cursor])
       IN /\ ir' = m.blocks
          /\ cache' = m.cache
          /\ IF m.err # ""
             THEN phase' = "failed" /\ err' = m.err /\ UNCHANGED cursor
             ELSE /\ cursor' = cursor + 1
                  /\ UNCHANGED <<phase, err>>
    /\ UNCHANGED <<prog, tie, ordering, queue, in_queue, states, nruns, last, emitted, fixups, walk>>

FindDone ==
    /\ phase = "find"
    /\ cursor = NumBB(prog.blocks)
    /\ phase' = "emit"
    /\ cursor' = 0
    /\ UNCHANGED <<prog, tie, err, ordering, queue, in_queue, states, nruns, last, ir, cache,
                   emitted, fixups, walk>>

\* lines 1228-1248: one block of the second pass, which emits the block's plan
EmitStep ==
    /\ phase = "emit"
    /\ cursor < NumBB(prog.blocks)
    /\ \E e \in EmitBlock([emitted |-> emitted, fixups |-> fixups, err |-> ""], prog, cache,
                          states, cursor) :
          /\ emitted' = e.emitted
          /\ fixups' = e.fixups
          /\ IF e.err # ""
             THEN phase' = "failed" /\ err' = e.err /\ UNCHANGED cursor
             ELSE /\ cursor' = cursor + 1
                  /\ UNCHANGED <<phase, err>>
    /\ UNCHANGED <<prog, tie, ordering, queue, in_queue, states, nruns, last, ir, cache, walk>>

EmitDone ==
    /\ phase = "emit"
    /\ cursor = NumBB(prog.blocks)
    /\ phase' = "yields"
    /\ cursor' = 0
    /\ UNCHANGED <<prog, tie, err, ordering, queue, in_queue, states, nruns, last, ir, cache,
                   emitted, fixups, walk>>

\* lines 1254-1280: one iteration of the loop over the yield call sites
YieldStep ==
    /\ phase = "yields"
    /\ cursor < Len(Yields(prog))
    /\ \E s \in YieldStateChoices(prog, emitted, fixups, Yields(prog)[cursor + 1]) :
          LET at == Yields(prog)[cursor + 1]
              old_yield == ir[at[1]][at[2]]
          IN IF s = NoBlock
             THEN /\ phase' = "failed"
                  /\ err' = "yield call was erased"
                  /\ UNCHANGED <<ir, cursor>>
             ELSE IF Len(old_yield.ops) # 3
             THEN /\ phase' = "failed"
                  /\ err' = "old_yield->getNumArgOperands() == 3"
                  /\ UNCHANGED <<ir, cursor>>
             ELSE \E found \in DanglingLookups(prog, fixups, states, ir, states[s]) :
                     /\ ir' = [ir EXCEPT ![at[1]][at[2]] = RewriteYield(prog, states[s], old_yield, found)]
                     /\ cursor' = cursor + 1
                     /\ UNCHANGED <<phase, err>>
    /\ UNCHANGED <<prog, tie, ordering, queue, in_queue, states, nruns, last, cache, emitted,
                   fixups, walk>>

\* the pass returns (line 1282) and the rewritten function is walked from its entry
YieldDone ==
    /\ phase = "yields"
    /\ cursor = Len(Yields(prog))
    /\ phase' = "walk"
    /\ walk' = Arrive(prog, [IdleWalk(prog) EXCEPT !.status = "at"], emitted, EntryBlock, 1)
    /\ UNCHANGED <<prog, tie, err, ordering, queue, in_queue, states, nruns, last, ir, cache,
                   cursor, emitted, fixups>>

WalkInst == ir[walk.b][walk.i]

Walking ==
    /\ phase = "walk"
    /\ walk.status = "at"
    /\ \A v \in DOMAIN walk.held : walk.held[v] <= HeldCap /\ walk.held[v] >= -HeldCap

\* an instruction that is not a terminator executes and control reaches the next one
WalkNext ==
    /\ Walking
    /\ walk.i < Len(ir[walk.b])
    /\ walk' = Arrive(prog,
                      [walk EXCEPT !.held = Birth(prog, Steal(prog, walk.held, WalkInst), WalkInst),
                                   !.before = walk.held],
                      emitted, walk.b, walk.i + 1)
    /\ UNCHANGED <<prog, tie, phase, err, ordering, queue, in_queue, states, nruns, last, ir,
                   cache, cursor, emitted, fixups>>

\* a call marked may-raise raises: the landing pad emitted for it, if any, runs and
\* rethrows, after the ops that were inserted into its block
WalkRaise ==
    /\ Walking
    /\ WalkInst.may_throw
    /\ LET at == Anchor(walk.b, walk.i)
           w == ApplyEmitted(prog, [walk EXCEPT !.before = walk.held,
                                                !.held = Steal(prog, walk.held, WalkInst)],
                             MapGet(emitted, InPad(at), <<>>), 1)
       IN walk' = [w EXCEPT !.status = "raised",
                            !.held = Unwind(w.held, MapGet(fixups, at, <<>>))]
    /\ UNCHANGED <<prog, tie, phase, err, ordering, queue, in_queue, states, nruns, last, ir,
                   cache, cursor, emitted, fixups>>

\* a branch or an invoke transfers control to one of its successors
WalkBranch ==
    /\ Walking
    /\ walk.i = Len(ir[walk.b])
    /\ \E k \in 1..Len(WalkInst.succs) :
          LET stolen == Steal(prog, walk.held, WalkInst)
              held == IF WalkInst.kind = "invoke" /\ k = 1
                      THEN Birth(prog, stolen, WalkInst) ELSE stolen
          IN walk' = Arrive(prog, [walk EXCEPT !.held = held, !.before = walk.held],
                            emitted, WalkInst.succs[k], 1)
    /\ UNCHANGED <<prog, tie, phase, err, ordering, queue, in_queue, states, nruns, last, ir,
                   cache, cursor, emitted, fixups>>

\* a return or an unreachable ends the walk
WalkExit ==
    /\ Walking
    /\ walk.i = Len(ir[walk.b])
    /\ WalkInst.succs = <<>>
    /\ walk' = [walk EXCEPT !.status = IF WalkInst.kind = "ret" THEN "returned" ELSE "unreachable",
                            !.before = walk.held,
                            !.held = Steal(prog, walk.held, WalkInst)]
    /\ UNCHANGED <<prog, tie, phase, err, ordering, queue, in_queue, states, nruns, last, ir,
                   cache, cursor, emitted, fixups>>

Next ==
    \/ ComputeOrder
    \/ SolveStep
    \/ SolveDone
    \/ FindStep
    \/ FindDone
    \/ EmitStep
    \/ EmitDone
    \/ YieldStep
    \/ YieldDone
    \/ WalkNext
    \/ WalkRaise
    \/ WalkBranch
    \/ WalkExit

Spec == Init /\ [][Next]_vars

-----------------------------------------------------------------------------
(* Properties of the rewritten function: P1, P2, P3 *)

\* the tracked values an instruction touches: operands, recorded uses, recorded consumes
ValuesUsedBy(p, I) == {v \in Range(I.ops) \cup Range(I.used) \cup Range(I.consumed) : Tracked(p, v)}

\* what an instruction needs the function to hold of v when it executes: every reference
\* it consumes, and one reference of an OWNED value it merely uses
HeldNeeded(p, I, v) ==
    IF NumConsumedByInst(I, v) > NeededRefs(p, v) THEN NumConsumedByInst(I, v) ELSE NeededRefs(p, v)

\* C1 (P1, no leak): when a walk from the function entry reaches a return, the birth
\* references, inserted increments, inserted decrements and consumed references of every
\* tracked value along the path walked sum to zero (a returned value is consumed by the return).
NoLeak ==
    walk.status = "returned" => \A v \in DOMAIN walk.held : walk.held[v] = 0

\* C2 (P2, no premature free): whenever a walk from the function entry is about to execute an
\* instruction that uses a tracked value v, the contributions for v summed up to that point
\* cover the use: at least one reference of an OWNED value, and every reference consumed.
NoPrematureFree ==
    (phase = "walk" /\ walk.status = "at") =>
        \A v \in ValuesUsedBy(prog, WalkInst) : walk.held[v] >= HeldNeeded(prog, WalkInst, v)

\* C3 (P3/I5, exception safety): when a may-raise call raises, the references it consumed are
\* gone and the decrements of the fixup recorded for it release exactly the references the
\* walk still holds: nothing stays held and nothing is decremented below zero.
ExceptionSafe ==
    walk.status = "raised" => \A v \in DOMAIN walk.held : walk.held[v] = 0

-----------------------------------------------------------------------------
(* The solver loop *)

\* lines 842-870: the pass is computing the order or running the loop, and its next step can run
SolverEnabled ==
    \/ phase = "order"
    \/ phase = "solve"

\* a step of the pass while it is in the solver
SolverMoves == phase \in {"order", "solve"} /\ vars' # vars

\* the solver loop is sequential code: an iteration that can run does run (weak fairness
\* of the solver's steps, with their enabling condition written out)
FairSpec == Spec /\ ([]<>(~SolverEnabled) \/ []<><<SolverMoves>>_vars)

\* C4 (termination): on every input the worklist loop ends: the pass leaves the solver,
\* with the worklist empty, or stopped by a failed assertion; no block is processed
\* without end.
SolverTerminates == <>(phase \notin {"order", "solve"})

\* a function with a cycle has converged after the solver came back to some block
SolverConverged ==
    /\ phase = "find"
    /\ queue = <<>>
    /\ \E b \in DOMAIN nruns : nruns[b] >= 3

-----------------------------------------------------------------------------
(* Determinism *)

\* C5 (P4, determinism): the traversal ordering a run computes is the one every other build
\* computes on the same function: it does not depend on how the sort orders cycle-seed
\* candidates with equal counts.
OrderingIndependentOfTies ==
    phase # "order" =>
        \A ts \in TieMatters(prog) :
            ordering = computeTraversalOrder(BBGraph(prog.blocks), ts)

-----------------------------------------------------------------------------
(* Block summaries *)

\* C6 (I1): every entry of the ending_refs of every block has a count greater than zero,
\* and no merge has found a successor entry that is not positive.
PositiveEndingRefs ==
    /\ \A b \in DOMAIN states : \A e \in Range(states[b].ending_refs) : e.n > 0
    /\ err # "successor entry not positive"

\* the increments the scan of block b put after a call that may raise (lines 1018-1021)
FlushIncrefs(b) ==
    {op \in Range(states[b].increfs) :
        /\ op.insertion_inst # NoAnchor
        /\ op.insertion_inst[2] > 1
        /\ prog.blocks[b][op.insertion_inst[2] - 1].may_throw}

\* a block was processed after a call that may raise had its BORROWED entry flushed and
\* erased, and it ended with references to hand to its predecessors
ErasedAndHandedOn ==
    /\ \E b \in DOMAIN states : \E op \in FlushIncrefs(b) : RefTypeOf(prog, op.operand) = BORROWED
    /\ last.idx # NoBlock
    /\ states[last.idx].ending_refs # <<>>

-----------------------------------------------------------------------------
(* The mutator *)

\* the ops the solver scheduled on an edge or at the top of a block
EdgeOps == UNION {Range(states[b].increfs) \cup Range(states[b].decrefs) : b \in DOMAIN states}

EdgeSited == {op \in EdgeOps : op.insertion_inst = NoAnchor}

\* the blocks findInsertionPoint created
IsBreaker(b) == b \in DOMAIN ir /\ b \notin DOMAIN prog.blocks

PhisOf(blocks, b) == {blocks[b][j] : j \in {k \in 1..Len(blocks[b]) : blocks[b][k].kind = "phi"}}

\* the op is placed in its target block, which control enters from nowhere else: in front
\* of an instruction that is no phi, or at the end of the block's list
PlacedInTarget(op, pt) ==
    /\ pt[1] = op.insertion_bb
    /\ pt[2] \in 1..(Len(ir[pt[1]]) + 1)
    /\ pt[2] <= Len(ir[pt[1]]) => ir[pt[1]][pt[2]].kind # "phi"
    /\ Range(Predecessors(ir, op.insertion_bb)) \subseteq {op.insertion_from_bb}
    /\ numPredecessors(ir, op.insertion_bb) <= 1

\* the op is placed in a block created on the edge: entered from the from block only,
\* leaving to the target only, and named by the target's phis in place of the from block
PlacedInBreaker(op, pt) ==
    /\ IsBreaker(pt[1])
    /\ Predecessors(ir, pt[1]) = <<op.insertion_from_bb>>
    /\ Successors(ir, pt[1]) = <<op.insertion_bb>>
    /\ op.insertion_bb \notin Range(Successors(ir, op.insertion_from_bb))
    /\ \A phi \in PhisOf(ir, op.insertion_bb) :
          /\ op.insertion_from_bb \notin Range(phi.inc)
          /\ pt[1] \in Range(phi.inc)

-----------------------------------------------------------------------------
(* The merge *)

\* the successors of b the merge of b reads: those already processed, b itself included
\* when it is its own successor (line 890 marks b processed before lines 902-905 collect them)
MergedSuccessors(b) == {s \in Range(Successors(prog.blocks, b)) : states[s].been_run}

\* what successor s demands of v when b is merged: the count its summary lists, zero when it
\* does not list v; lines 892-895 have emptied the summary of b by then, so b finds itself
\* demanding nothing
Demand(b, s, v) == IF s = b THEN 0 ELSE OMGet(states[s].ending_refs, v)

\* some successor lists v
Demanded(b, v) == \E s \in MergedSuccessors(b) : Demand(b, s, v) > 0

\* the block the solver processed last, while the summaries its merge read are unchanged
JustMerged == last.idx # NoBlock /\ MergedSuccessors(last.idx) # {}

\* the ops of a plan that sit on an edge out of b
OnEdgesFrom(ops, b) ==
    {<<op.operand, op.num_refs, op.insertion_bb>> : op \in
        {o \in Range(ops) : o.insertion_inst = NoAnchor /\ o.insertion_from_bb = b}}

\* the count the merge of b gives v: the least demand, raised to 1 for an OWNED value
Inherited(b, v) ==
    LET least == SetMin({Demand(b, s, v) : s \in MergedSuccessors(b)})
    IN IF ~Demanded(b, v) THEN 0
       ELSE IF RefTypeOf(prog, v) = OWNED /\ least < 1 THEN 1
       ELSE least

\* the increments the merge of b owes the edges to the successors that demand more
EdgeIncrements(b) ==
    {<<c[1], Demand(b, c[2], c[1]) - Inherited(b, c[1]), c[2]>> : c \in
        {c \in (DOMAIN prog.vars) \X MergedSuccessors(b) :
            Demanded(b, c[1]) /\ Demand(b, c[2], c[1]) > Inherited(b, c[1])}}

\* the decrements the merge of b owes the edges to the successors that demand less
EdgeDecrements(b) ==
    {<<c[1], Inherited(b, c[1]) - Demand(b, c[2], c[1]), c[2]>> : c \in
        {c \in (DOMAIN prog.vars) \X MergedSuccessors(b) :
            Demanded(b, c[1]) /\ Demand(b, c[2], c[1]) < Inherited(b, c[1])}}

\* C8 (I3) as the spec states it: the count a block inherits for v is the maximum of what
\* its successors demand, a successor that does not list v demanding zero.
InheritsMaxOfSuccessors ==
    JustMerged =>
        \A v \in DOMAIN prog.vars :
            OMGet(states[last.idx].starting_refs, v)
                = SetMax({Demand(last.idx, s, v) : s \in MergedSuccessors(last.idx)})

\* C8 (I3) as the code computes it: the count a block inherits for a value some processed
\* successor lists is the minimum of what its processed successors demand, a successor that
\* does not list v demanding zero and the block itself, when it is its own successor,
\* demanding zero of every value; the minimum is raised to 1 when v is OWNED. A count of
\* zero is not stored, and a value no processed successor lists is not inherited. The edge
\* to every processed successor that demands more carries an increment of the difference
\* and the edge to every one that demands less a decrement of the difference; where the
\* block ends in a branch, its edges carry nothing else.
InheritsMinOfSuccessors ==
    JustMerged =>
        /\ \A v \in DOMAIN prog.vars :
              OMGet(states[last.idx].starting_refs, v) = Inherited(last.idx, v)
        /\ \A e \in Range(states[last.idx].starting_refs) : e.k \in DOMAIN prog.vars /\ e.n > 0
        /\ EdgeIncrements(last.idx) \subseteq OnEdgesFrom(states[last.idx].increfs, last.idx)
        /\ EdgeDecrements(last.idx) \subseteq OnEdgesFrom(states[last.idx].decrefs, last.idx)
        /\ Terminator(prog.blocks, last.idx).kind \in {"br", "condbr", "switch"} =>
              /\ OnEdgesFrom(states[last.idx].increfs, last.idx) = EdgeIncrements(last.idx)
              /\ OnEdgesFrom(states[last.idx].decrefs, last.idx) = EdgeDecrements(last.idx)

\* the successors of the block just merged disagree on a value, and the edges to the one
\* that demands more and to the one that demands less both got their op
SuccessorsDisagree ==
    /\ JustMerged
    /\ \E v \in DOMAIN prog.vars : \E s, t \in MergedSuccessors(last.idx) :
          /\ Demand(last.idx, s, v) > Inherited(last.idx, v)
          /\ Demand(last.idx, t, v) < Inherited(last.idx, v)
          /\ \E n \in 1..MaxHeld : <<v, n, s>> \in OnEdgesFrom(states[last.idx].increfs, last.idx)
          /\ \E n \in 1..MaxHeld : <<v, n, t>> \in OnEdgesFrom(states[last.idx].decrefs, last.idx)

\* a block that is its own successor was merged while another successor listed a value
SelfSuccessorMerged ==
    /\ JustMerged
    /\ last.idx \in MergedSuccessors(last.idx)
    /\ \E v \in DOMAIN prog.vars : Demanded(last.idx, v)

-----------------------------------------------------------------------------
(* Scenarios *)

\* the diamonds of the catalogue in which block c consumes the OWNED v once and block n
\* does not use it: the spec's scenario and the generated diamond, either way round
DiamondCases ==
    {[p |-> DiamondScenario, c |-> 1, n |-> 2],
     [p |-> GenDiamond("owned", SConsume(1), SNone, SNone), c |-> 1, n |-> 2],
     [p |-> GenDiamond("owned", SNone, SConsume(1), SNone), c |-> 2, n |-> 1]}

SolverDone == phase \in {"find", "emit", "yields", "walk"}

AllIncrefs == UNION {Range(states[b].increfs) : b \in DOMAIN states}

AllDecrefs == UNION {Range(states[b].decrefs) : b \in DOMAIN states}

\* the blocks of the rewritten function in which something was inserted
BlocksWithOps == {a[1] : a \in DOMAIN emitted}

\* C9 (diamond scenario): the plan holds exactly one op, a decrement of v by one on the edge
\* from the branching block into the arm that does not use v; it is realised at the head of
\* that arm, and nothing is inserted in the consuming arm, at the join or anywhere else.
DiamondPlan ==
    \A d \in DiamondCases :
        prog = d.p =>
            /\ SolverDone =>
                  /\ AllIncrefs = {}
                  /\ AllDecrefs = {RefOp("v", FALSE, 1, NoAnchor, d.n, EntryBlock)}
                  /\ states[EntryBlock].decrefs = <<RefOp("v", FALSE, 1, NoAnchor, d.n, EntryBlock)>>
                  /\ \A b \in DOMAIN states : states[b].cxx_fixups = <<>>
            /\ phase = "walk" =>
                  /\ ir = prog.blocks
                  /\ emitted = (Anchor(d.n, 1) :>
                                   <<Emitted("dec", RefOp("v", FALSE, 1, NoAnchor, d.n, EntryBlock),
                                             EntryBlock)>>)
                  /\ fixups = EmptyMap

\* the spec's diamond was rewritten and a walk entered the arm that does not use v: the
\* decrement at its head has released the reference v was born with
DiamondWalked ==
    /\ prog = DiamondScenario
    /\ phase = "walk"
    /\ BlocksWithOps = {2}
    /\ walk.status = "at" /\ walk.b = 2 /\ walk.i = 1
    /\ walk.before["v"] = 1
    /\ walk.held["v"] = 0

\* the decrements of the old value of the loop's phi that the plan holds
LoopDecrefs == {op \in AllDecrefs : op.operand = "v"}

\* C10 (loop scenario) as the spec states it: the converged plan holds a decrement of the
\* old v sited on the back-edge from the body (block 2) to the header (block 1).
LoopDecrementOnBackEdge ==
    (prog = LoopScenario /\ SolverDone) =>
        \E op \in LoopDecrefs : op.insertion_bb = 1 /\ op.insertion_from_bb = 2

\* C10 (loop scenario) as the code plans it: the old v is decremented once in the body,
\* immediately after its last use and before the new value is computed, and once on the
\* edge from the header to the exit; no op is sited on the back-edge, nothing else is
\* planned, and a walk holds one reference of v at the header's branch in every iteration,
\* none at the end of the body and none at the return.
LoopDecrementAfterLastUse ==
    prog = LoopScenario =>
        /\ SolverDone =>
              /\ states[2].decrefs = <<RefOp("v", FALSE, 1, Anchor(2, 2), NoBlock, NoBlock)>>
              /\ states[1].decrefs = <<RefOp("v", FALSE, 1, NoAnchor, 3, 1)>>
              /\ AllDecrefs = Range(states[1].decrefs) \cup Range(states[2].decrefs)
              /\ AllIncrefs = {}
        /\ phase = "walk" =>
              /\ ir = prog.blocks
              /\ DOMAIN emitted = {Anchor(2, 2), Anchor(3, 1)}
              /\ (walk.status = "at" /\ walk.b = 1 /\ walk.i = 2) => walk.held["v"] = 1
              /\ (walk.status = "at" /\ walk.b = 2 /\ walk.i = 3) => walk.held["v"] = 0
              /\ walk.status = "returned" => walk.held["v"] = 0

\* the loop was rewritten and a walk is at the end of the body: the decrement after the
\* last use has released the old v, and the new value is held for the phi
LoopWalked ==
    /\ prog = LoopScenario
    /\ phase = "walk"
    /\ walk.status = "at" /\ walk.b = 2 /\ walk.i = 3
    /\ walk.held["v"] = 0
    /\ walk.held["b"] = 1

-----------------------------------------------------------------------------
(* The may-raise scenario *)

\* what the solver planned for MayRaiseScenario apart from the fixup's list: one fixup, at h
\* (instruction 3 of block 0), no increment, and the two last-use decrements after h
MayRaisePlanAround ==
    /\ Len(states[0].cxx_fixups) = 1
    /\ states[0].cxx_fixups[1].inst = Anchor(0, 3)
    /\ states[0].increfs = <<>>
    /\ states[0].decrefs = <<RefOp("v", FALSE, 1, Anchor(0, 6), NoBlock, NoBlock),
                             RefOp("u", FALSE, 1, Anchor(0, 5), NoBlock, NoBlock)>>
    /\ phase = "walk" => /\ DOMAIN fixups = {Anchor(0, 3)}
                         /\ DOMAIN emitted = {Anchor(0, 5), Anchor(0, 6)}

\* C11 (may-raise scenario) as the spec states it: the fixup recorded at h decrements the list
\* u, v, in that order.
MayRaiseFixupListsUV ==
    (prog = MayRaiseScenario /\ SolverDone) =>
        /\ MayRaisePlanAround
        /\ states[0].cxx_fixups[1].to_decref = <<"u", "v">>

\* C11 (may-raise scenario) as the code plans it: exactly one fixup is recorded, at h, and its
\* list holds u and v once each in the order in which the backward scan met them, v then u;
\* nothing is inserted at or before h, and the only other ops are the decrements after the
\* last uses of u and v.
MayRaiseFixupListsVU ==
    (prog = MayRaiseScenario /\ SolverDone) =>
        /\ MayRaisePlanAround
        /\ states[0].cxx_fixups[1].to_decref = <<"v", "u">>
        /\ phase = "walk" => fixups[Anchor(0, 3)] = <<"v", "u">>

\* h raised in the rewritten scenario: the function held one reference of each of u and v,
\* and the fixup released both
MayRaiseRaised ==
    /\ prog = MayRaiseScenario
    /\ walk.status = "raised"
    /\ walk.b = 0 /\ walk.i = 3
    /\ walk.before["u"] = 1 /\ walk.before["v"] = 1
    /\ walk.held["u"] = 0 /\ walk.held["v"] = 0

-----------------------------------------------------------------------------
(* The last-use rule: lines 1065-1098 *)

\* the backward scan of block b from its terminator down to instruction lo
RECURSIVE ScanDownTo(_, _, _, _, _)
ScanDownTo(p, b, i, lo, acc) ==
    IF i < lo THEN acc ELSE ScanDownTo(p, b, i - 1, lo, ScanInst(p, b, i, acc))

\* the scan of the block processed last as it stands when it reaches the last-use step of
\* instruction i (lines 1064-1065): the later instructions scanned, the definition and the
\* may-raise flush of instruction i done
AtLastUseStep(i) ==
    ScanFlush(prog, last.idx, i,
        ScanDefinition(prog, last.idx, i,
            ScanDownTo(prog, last.idx, Len(prog.blocks[last.idx]), i + 1,
                       MergeFromSuccessors(prog, states, last.idx))))

\* the same scan after the last-use step of instruction i
AfterLastUseStep(i) ==
    ScanLastUses(prog, last.idx, i, AtLastUseStep(i), OperandKeys(prog, prog.blocks[last.idx][i]), 1)

\* the instructions of the block processed last that are neither phis nor terminators, paired
\* with an OWNED value they use more often than they consume it
LastUseCandidates ==
    IF last.idx = NoBlock \/ err # "" THEN {}
    ELSE {c \in (1..(Len(prog.blocks[last.idx]) - 1)) \X DOMAIN prog.vars :
             LET I == prog.blocks[last.idx][c[1]]
             IN /\ I.kind # "phi"
                /\ RefTypeOf(prog, c[2]) = OWNED
                /\ NumTimesAsOp(prog, I, c[2]) > NumConsumedByInst(I, c[2])}

\* the decrements of v the plan of the block processed last holds immediately after instruction i
DecrefsAfter(i, v) ==
    SelectSeq(states[last.idx].decrefs,
              LAMBDA op : op.operand = v /\ op.insertion_inst = Anchor(last.idx, i + 1))

FollowedByUnreachable(i) == prog.blocks[last.idx][i + 1].kind = "unreachable"

\* C12 (last-use decrement) as the spec states it: a last use is always followed by exactly
\* one decrement of count 1 and leaves ending_refs[v] = 1; a use that is not the last gets none.
LastUseAlwaysDecrements ==
    \A c \in LastUseCandidates :
        IF OMGet(AtLastUseStep(c[1]).ending_refs, c[2]) = 0
        THEN /\ DecrefsAfter(c[1], c[2])
                    = <<RefOp(c[2], NullableOf(prog, c[2]), 1, Anchor(last.idx, c[1] + 1), NoBlock, NoBlock)>>
             /\ OMGet(AfterLastUseStep(c[1]).ending_refs, c[2]) = 1
        ELSE DecrefsAfter(c[1], c[2]) = <<>>

\* C12 (last-use decrement) as the code does it: a last use that is not followed by an
\* unreachable is followed by exactly one decrement of count 1; a last use followed by an
\* unreachable (the instruction is then marked may-raise) gets no decrement; in both cases
\* ending_refs[v] becomes 1; a use that is not the last gets no decrement and leaves the
\* count as it was.
LastUseDecrementsUnlessUnreachable ==
    \A c \in LastUseCandidates :
        IF OMGet(AtLastUseStep(c[1]).ending_refs, c[2]) = 0
        THEN /\ DecrefsAfter(c[1], c[2])
                    = IF FollowedByUnreachable(c[1]) THEN <<>>
                      ELSE <<RefOp(c[2], NullableOf(prog, c[2]), 1, Anchor(last.idx, c[1] + 1),
                                   NoBlock, NoBlock)>>
             /\ FollowedByUnreachable(c[1]) => prog.blocks[last.idx][c[1]].may_throw
             /\ OMGet(AfterLastUseStep(c[1]).ending_refs, c[2]) = 1
        ELSE /\ DecrefsAfter(c[1], c[2]) = <<>>
             /\ OMGet(AfterLastUseStep(c[1]).ending_refs, c[2])
                    = OMGet(AtLastUseStep(c[1]).ending_refs, c[2])

\* the block processed last holds a last use that got its decrement and an earlier use of a
\* value that was still needed and got none
LastUseAndEarlierUse ==
    /\ \E c \in LastUseCandidates :
          /\ OMGet(AtLastUseStep(c[1]).ending_refs, c[2]) = 0
          /\ Len(DecrefsAfter(c[1], c[2])) = 1
    /\ \E c \in LastUseCandidates :
          /\ OMGet(AtLastUseStep(c[1]).ending_refs, c[2]) > 0
          /\ DecrefsAfter(c[1], c[2]) = <<>>

-----------------------------------------------------------------------------
(* Ownership hand-off *)

\* instruction I mentions v: as its result, an operand, a recorded use or a recorded consume
Mentions(I, v) == I.def = v \/ v \in Range(I.ops) \cup Range(I.used) \cup Range(I.consumed)

\* the OWNED v is produced by one instruction of a block and its single later appearance is
\* as an operand of a later instruction of the same block, which consumes it exactly once
HandedOff(p, v) ==
    /\ RefTypeOf(p, v) = OWNED
    /\ \E b \in DOMAIN p.blocks : \E i, j \in 1..Len(p.blocks[b]) :
          /\ i < j
          /\ p.blocks[b][i].kind = "call" /\ p.blocks[b][i].def = v
          /\ Occurrences(p.blocks[b][j].ops, v) = 1
          /\ Occurrences(p.blocks[b][j].consumed, v) = 1
          /\ Occurrences(p.blocks[b][j].used, v) = 0
          /\ \A c \in DOMAIN p.blocks : \A k \in 1..Len(p.blocks[c]) :
                Mentions(p.blocks[c][k], v) => c = b /\ k \in {i, j}

\* the ops inserted into the rewritten function
EmittedOps == UNION {Range(emitted[a]) : a \in DOMAIN emitted}

\* C13 (ownership hand-off): for an OWNED value produced by one instruction and consumed
\* exactly once by its single later appearance in the same block, the plan holds no increment
\* and no decrement of it, and nothing is inserted for it.
HandOffNeedsNoOps ==
    \A v \in DOMAIN prog.vars :
        (HandedOff(prog, v) /\ SolverDone) =>
            /\ \A op \in AllIncrefs \cup AllDecrefs : op.operand # v
            /\ \A o \in EmittedOps : o.v # v

\* the spec's straight-line function was rewritten with nothing inserted and walked to its
\* return: g took the reference f produced
HandOffWalked ==
    /\ prog = StraightConsume
    /\ HandedOff(prog, "v")
    /\ walk.status = "returned"
    /\ emitted = EmptyMap
    /\ walk.held["v"] = 0

-----------------------------------------------------------------------------
(* The borrowed argument that is returned *)

\* the increment the entry block plans for the parameter x of BorrowedReturned
EntryIncrefOfX == RefOp("x", TRUE, 1, NoAnchor, EntryBlock, NoBlock)

\* C14 (borrowed argument returned): the plan for the function that returns its BORROWED
\* nullable parameter holds exactly one op: an increment of the parameter by 1, flagged
\* nullable, sited on the entry block and inserted before its first instruction; there is no
\* decrement and no fixup.
BorrowedReturnedPlan ==
    (prog = BorrowedReturned /\ SolverDone) =>
        /\ states[EntryBlock].increfs = <<EntryIncrefOfX>>
        /\ AllIncrefs = {EntryIncrefOfX}
        /\ AllDecrefs = {}
        /\ states[EntryBlock].cxx_fixups = <<>>
        /\ phase \in {"emit", "walk"} => cache = CacheKey(EntryBlock, NoBlock) :> Anchor(EntryBlock, 1)
        /\ phase = "walk" =>
              /\ emitted = Anchor(EntryBlock, 1) :> <<Emitted("inc", EntryIncrefOfX, EntryBlock)>>
              /\ ir = prog.blocks

\* the rewritten function returned: the increment at entry gave it the reference the return
\* hands to the caller
BorrowedReturnedWalked ==
    /\ prog = BorrowedReturned
    /\ walk.status = "returned"
    /\ walk.before["x"] = 1
    /\ walk.held["x"] = 0

-----------------------------------------------------------------------------
(* The yield rewrite *)

\* what the yield at anchor a is to pass: the OWNED values in the ending_refs of the block of
\* the input function that contains it, minus the value it yields
YieldExpected(a) ==
    SelectSeq(OMKeys(states[a[1]].ending_refs),
              LAMBDA v : RefTypeOf(prog, v) = OWNED /\ v # prog.blocks[a[1]][a[2]].ops[2])

\* C15 (yield rewrite): once the pass has returned, every yield call site passes exactly the
\* OWNED values of the ending_refs of the block that contains it, minus the yielded value,
\* preceded by their number; the call is left as it was when there are none and replaced
\* otherwise.
YieldPassesLiveOwned ==
    phase = "walk" =>
        \A a \in Range(Yields(prog)) :
            /\ ir[a[1]][a[2]].live = YieldExpected(a)
            /\ ir[a[1]][a[2]].rewritten = (YieldExpected(a) # <<>>)

-----------------------------------------------------------------------------
(* The annotation store: RefcountTracker::setType, setNullable, refConsumed, refUsed and
   setMayThrow, lines 53-123 *)

\* the values the front end annotates: an instruction, a cast of it, the constant null
\* pointer, undef
AnnotValues == {"a", "c", "null", "undef"}

\* c = bitcast src
Cast(def, src) == Inst("cast", def, <<src>>, <<>>, <<>>, FALSE, <<>>, FALSE)

\* the instruction that defines v, NoAnchor for a value that is not an instruction
DefinedBy(blocks, v) ==
    IF \E b \in DOMAIN blocks : \E i \in 1..Len(blocks[b]) : blocks[b][i].def = v
    THEN CHOOSE a \in UNION {{Anchor(b, i) : i \in 1..Len(blocks[b])} : b \in DOMAIN blocks} :
             blocks[a[1]][a[2]].def = v
    ELSE NoAnchor

\* getFirstNonPHI
FirstNonPHI(blocks, b) == Anchor(b, SetMin({i \in 1..Len(blocks[b]) : blocks[b][i].kind # "phi"}))

\* lines 64-74: the assertion a tracked cast has to pass, "" for a value that is not a cast
\* and for a cast that stands immediately after the value it casts
CastCheck(blocks, v) ==
    LET at == DefinedBy(blocks, v)
    IN IF at = NoAnchor \/ blocks[at[1]][at[2]].kind # "cast" THEN ""
       ELSE LET uncasted == DefinedBy(blocks, blocks[at[1]][at[2]].ops[1])
                uncasted_inst == blocks[uncasted[1]][uncasted[2]]
            IN IF uncasted_inst.kind = "invoke"
               THEN IF FirstNonPHI(blocks, uncasted_inst.succs[1]) = at THEN ""
                    ELSE "uncasted_invoke->getNormalDest()->getFirstNonPHI() == cast"
               ELSE IF Anchor(uncasted[1], uncasted[2] + 1) = at THEN ""
                    ELSE "uncasted_inst->getNextNode() == cast"

Disciplines == {OWNED, BORROWED, UNKNOWN}

\* what this->vars[v] holds for a value the store has not seen: no discipline, not nullable
DefaultVar(v) == Var(UNKNOWN, FALSE, IF v \in {"null", "undef"} THEN v ELSE "inst")

\* auto& var = this->vars[v] (lines 76, 90): the entry is created when it is missing
VarsWith(store, v) == IF v \in DOMAIN store THEN store ELSE MapPut(store, v, DefaultVar(v))

SetTypeOverwrites(store, blocks, v, reftype) ==
    [vars |-> [VarsWith(store, v) EXCEPT ![v].reftype = reftype], err |-> ""]

\* lines 53-85; a failed assertion leaves the store as it was when the assertion was reached
setType(store, blocks, v, reftype) ==
    IF v = "undef" THEN [vars |-> store, err |-> "!llvm::isa<llvm::UndefValue>(v)"]
    ELSE IF CastCheck(blocks, v) # "" THEN [vars |-> store, err |-> CastCheck(blocks, v)]
    ELSE LET with == VarsWith(store, v)
         IN IF ~(with[v].reftype = reftype \/ with[v].reftype = UNKNOWN)
            THEN [vars |-> with, err |-> "var.reftype == reftype || var.reftype == RefType::UNKNOWN"]
            ELSE [vars |-> [with EXCEPT ![v].reftype = reftype,
                                        ![v].nullable = IF v = "null" THEN TRUE ELSE @],
                  err |-> ""]

\* lines 87-95
setNullable(store, v, nullable) ==
    IF v = "undef" THEN [vars |-> store, err |-> "!llvm::isa<llvm::UndefValue>(v)"]
    ELSE LET with == VarsWith(store, v)
         IN IF ~(with[v].nullable = nullable \/ with[v].nullable = FALSE)
            THEN [vars |-> with, err |-> "var.nullable == nullable || var.nullable == false"]
            ELSE [vars |-> [with EXCEPT ![v].nullable = nullable], err |-> ""]

\* lines 102-109, refs being refs_consumed[inst]: nothing is recorded for undef and the null
\* constant; the assertion reads this->vars[v], which creates the entry it then rejects
refConsumed(store, refs, v) ==
    IF v \in {"undef", "null"} THEN [vars |-> store, refs |-> refs, err |-> ""]
    ELSE LET with == VarsWith(store, v)
         IN IF with[v].reftype = UNKNOWN
            THEN [vars |-> with, refs |-> refs, err |-> "this->vars[v].reftype != RefType::UNKNOWN"]
            ELSE [vars |-> with, refs |-> Append(refs, v), err |-> ""]

\* lines 111-118, refs being refs_used[inst]
refUsed(store, refs, v) ==
    IF v \in {"undef", "null"} THEN [vars |-> store, refs |-> refs, err |-> ""]
    ELSE LET with == VarsWith(store, v)
         IN IF with[v].reftype = UNKNOWN
            THEN [vars |-> with, refs |-> refs, err |-> "this->vars[v].reftype != RefType::UNKNOWN"]
            ELSE [vars |-> with, refs |-> Append(refs, v), err |-> ""]

\* lines 120-123: whether inst is in may_throw after the call, and the assertion that failed
setMayThrow(marked) ==
    IF marked THEN [marked |-> TRUE, err |-> "!may_throw.count(inst)"]
    ELSE [marked |-> TRUE, err |-> ""]

\* how many values the front end records as consumed, and as used, by one instruction
MaxRecorded == 1

\* the functions being generated, before the front end has annotated anything: the cast c
\* stands immediately after the call a it casts, or apart from it; or a is an invoke and c is
\* the first instruction of its normal destination, or not the first
UnannotatedFunctions ==
    {Program("cast_adjacent",
             << <<Other, Call("a", <<>>, <<>>, <<>>, FALSE), Cast("c", "a"), Ret(<<>>, <<>>)>> >>,
             EmptyMap),
     Program("cast_apart",
             << <<Other, Call("a", <<>>, <<>>, <<>>, FALSE), Other, Cast("c", "a"),
                  Ret(<<>>, <<>>)>> >>,
             EmptyMap),
     Program("invoke_cast_first",
             << <<Other, Invoke("a", <<>>, <<>>, <<>>, 1, 2)>>,
                <<Cast("c", "a"), Ret(<<>>, <<>>)>>,
                <<LandingPad, Other, Other, Unreachable>> >>,
             EmptyMap),
     Program("invoke_cast_later",
             << <<Other, Invoke("a", <<>>, <<>>, <<>>, 1, 2)>>,
                <<Other, Cast("c", "a"), Ret(<<>>, <<>>)>>,
                <<LandingPad, Other, Other, Unreachable>> >>,
             EmptyMap)}

NoCall == [call |-> "none", v |-> NoVal, arg |-> NoVal, prior |-> NoVal]

\* the discipline the store holds for v, UNKNOWN when it holds nothing
StoredType(store, v) == IF v \in DOMAIN store THEN store[v].reftype ELSE UNKNOWN

AnnotInit ==
    /\ prog \in UnannotatedFunctions
    /\ tie = <<>>
    /\ phase = "annotate"
    /\ err = ""
    /\ ordering = <<>>
    /\ queue = <<>>
    /\ in_queue = [b \in DOMAIN prog.blocks |-> FALSE]
    /\ states = [b \in DOMAIN prog.blocks |-> FreshRefState]
    /\ nruns = [b \in DOMAIN prog.blocks |-> 0]
    /\ last = NoCall
    /\ ir = prog.blocks
    /\ cache = EmptyMap
    /\ cursor = 0
    /\ emitted = EmptyMap
    /\ fixups = EmptyMap
    /\ walk = IdleWalk(prog)

\* the front end calls setType(v, reftype)
SetTypeCall ==
    /\ phase = "annotate"
    /\ \E v \in AnnotValues, t \in Disciplines :
          LET r == setType(prog.vars, prog.blocks, v, t)
          IN /\ prog' = [prog EXCEPT !.vars = r.vars]
             /\ last' = [call |-> "setType", v |-> v, arg |-> t, prior |-> StoredType(prog.vars, v)]
             /\ err' = r.err
             /\ phase' = IF r.err # "" THEN "failed" ELSE phase
    /\ UNCHANGED <<tie, ordering, queue, in_queue, states, nruns, ir, cache, cursor, emitted,
                   fixups, walk>>

\* the front end calls setNullable(v, nullable)
SetNullableCall ==
    /\ phase = "annotate"
    /\ \E v \in AnnotValues, n \in BOOLEAN :
          LET r == setNullable(prog.vars, v, n)
          IN /\ prog' = [prog EXCEPT !.vars = r.vars]
             /\ last' = [call |-> "setNullable", v |-> v, arg |-> n, prior |-> StoredType(prog.vars, v)]
             /\ err' = r.err
             /\ phase' = IF r.err # "" THEN "failed" ELSE phase
    /\ UNCHANGED <<tie, ordering, queue, in_queue, states, nruns, ir, cache, cursor, emitted,
                   fixups, walk>>

\* the instruction the front end annotates
AnnotatedInst == Anchor(0, 1)

\* the front end calls refConsumed(v, inst)
RefConsumedCall ==
    /\ phase = "annotate"
    /\ Len(prog.blocks[0][1].consumed) < MaxRecorded
    /\ \E v \in AnnotValues :
          LET r == refConsumed(prog.vars, prog.blocks[0][1].consumed, v)
          IN /\ prog' = [prog EXCEPT !.vars = r.vars, !.blocks[0][1].consumed = r.refs]
             /\ last' = [call |-> "refConsumed", v |-> v, arg |-> AnnotatedInst,
                         prior |-> StoredType(prog.vars, v)]
             /\ err' = r.err
             /\ phase' = IF r.err # "" THEN "failed" ELSE phase
    /\ UNCHANGED <<tie, ordering, queue, in_queue, states, nruns, ir, cache, cursor, emitted,
                   fixups, walk>>

\* the front end calls refUsed(v, inst)
RefUsedCall ==
    /\ phase = "annotate"
    /\ Len(prog.blocks[0][1].used) < MaxRecorded
    /\ \E v \in AnnotValues :
          LET r == refUsed(prog.vars, prog.blocks[0][1].used, v)
          IN /\ prog' = [prog EXCEPT !.vars = r.vars, !.blocks[0][1].used = r.refs]
             /\ last' = [call |-> "refUsed", v |-> v, arg |-> AnnotatedInst,
                         prior |-> StoredType(prog.vars, v)]
             /\ err' = r.err
             /\ phase' = IF r.err # "" THEN "failed" ELSE phase
    /\ UNCHANGED <<tie, ordering, queue, in_queue, states, nruns, ir, cache, cursor, emitted,
                   fixups, walk>>

\* the front end calls setMayThrow(inst)
SetMayThrowCall ==
    /\ phase = "annotate"
    /\ LET r == setMayThrow(prog.blocks[0][1].may_throw)
       IN /\ prog' = [prog EXCEPT !.blocks[0][1].may_throw = r.marked]
          /\ last' = [call |-> "setMayThrow", v |-> NoVal, arg |-> AnnotatedInst, prior |-> NoVal]
          /\ err' = r.err
          /\ phase' = IF r.err # "" THEN "failed" ELSE phase
    /\ UNCHANGED <<tie, ordering, queue, in_queue, states, nruns, ir, cache, cursor, emitted,
                   fixups, walk>>

AnnotNext ==
    \/ SetTypeCall
    \/ SetNullableCall
    \/ RefConsumedCall
    \/ RefUsedCall
    \/ SetMayThrowCall

AnnotSpec == AnnotInit /\ [][AnnotNext]_vars

\* what a setType call did: a cast that does not stand immediately after the value it casts
\* was rejected; any other value went through exactly when it had no discipline or the same
\* one, and then the store holds the discipline that was set; it stopped the front end on a
\* failed assertion when the value had a different discipline, which the store keeps
SetTypeOutcome ==
    (last.call = "setType" /\ last.v # "undef") =>
        IF CastCheck(prog.blocks, last.v) # ""
        THEN /\ phase = "failed"
             /\ err = CastCheck(prog.blocks, last.v)
             /\ StoredType(prog.vars, last.v) = last.prior
        ELSE IF last.prior = UNKNOWN \/ last.prior = last.arg
        THEN phase = "annotate" /\ err = "" /\ prog.vars[last.v].reftype = last.arg
        ELSE /\ phase = "failed"
             /\ err = "var.reftype == reftype || var.reftype == RefType::UNKNOWN"
             /\ prog.vars[last.v].reftype = last.prior

\* a step of the front end keeps every discipline that is not UNKNOWN
DisciplineKept ==
    \A v \in DOMAIN prog.vars :
        prog.vars[v].reftype # UNKNOWN =>
            v \in DOMAIN prog'.vars /\ prog'.vars[v].reftype = prog.vars[v].reftype

\* C16 (discipline is write-once): setType(v, t) goes through when v's discipline is UNKNOWN
\* or already t and leaves it t; it is a failed assertion when v has another discipline; so
\* no annotation call ever changes a discipline that is not UNKNOWN.
DisciplineWriteOnce == [](SetTypeOutcome) /\ [][DisciplineKept]_vars

\* the front end set a to OWNED, then tried to set it to BORROWED and was stopped, with a
\* still OWNED
DisciplineRedefined ==
    /\ phase = "failed"
    /\ last = [call |-> "setType", v |-> "a", arg |-> BORROWED, prior |-> OWNED]
    /\ prog.vars["a"].reftype = OWNED

-----------------------------------------------------------------------------
(* C17: critical unwind edges *)

\* the ops planned by block b that sit on the edge from an invoke to its unwind destination,
\* where that destination has more than one predecessor
CriticalUnwindOps(b) ==
    {op \in Range(states[b].increfs) \cup Range(states[b].decrefs) :
        /\ op.insertion_inst = NoAnchor
        /\ op.insertion_from_bb # NoBlock
        /\ prog.blocks[op.insertion_from_bb][Len(prog.blocks[op.insertion_from_bb])].kind = "invoke"
        /\ prog.blocks[op.insertion_from_bb][Len(prog.blocks[op.insertion_from_bb])].succs[2]
               = op.insertion_bb
        /\ Cardinality({q \in DOMAIN prog.blocks :
                           op.insertion_bb \in Range(prog.blocks[q][Len(prog.blocks[q])].succs)}) > 1}

\* C17 (critical unwind edge is fatal): an op planned on the edge from an invoke to its
\* unwind destination, when that destination has more than one predecessor, is never given
\* an insertion point: the pass stops in the search for insertion points, at the latest in
\* the block that planned the op, and emits nothing.
CriticalUnwindEdgeFatal ==
    \A b \in DOMAIN prog.blocks : \A op \in CriticalUnwindOps(b) :
        /\ CacheKey(op.insertion_bb, op.insertion_from_bb) \notin DOMAIN cache
        /\ phase \notin {"emit", "yields", "walk"}
        /\ phase = "find" => cursor <= b
        /\ emitted = EmptyMap

\* the search for insertion points reached the op on the critical unwind edge and stopped
CriticalUnwindRejected ==
    /\ phase = "failed"
    /\ err = "don't know how break critical unwind edges"
    /\ \E b \in DOMAIN prog.blocks : CriticalUnwindOps(b) # {}

-----------------------------------------------------------------------------
(* computeTraversalOrder over every small control-flow graph *)

\* the largest number of blocks of a control-flow graph
MaxCfgBlocks == 3

\* the terminators of a block of a function of n blocks; no branch targets the entry block,
\* and the destinations of a switch are listed in increasing order
CfgTerminators(n) ==
    {Ret(<<>>, <<>>)}
        \cup {Br(t, <<>>) : t \in 1..(n - 1)}
        \cup {CondBr(t, f, <<>>) : t, f \in 1..(n - 1)}
        \cup {Switch(x[1], x[2], x[3]) :
                 x \in {y \in (1..(n - 1)) \X (1..(n - 1)) \X (1..(n - 1)) : y[1] <= y[2] /\ y[2] <= y[3]}}

\* a function of n blocks, each block its terminator alone
CfgSkeleton(n, body) == Program("cfg", [i \in 1..n |-> <<body[i]>>], EmptyMap)

OrderInit ==
    /\ \E n \in 1..MaxCfgBlocks : \E body \in [1..n -> CfgTerminators(n)] :
          \E o \in CreationOrders :
              /\ IF o = BlockOrder THEN TRUE ELSE UseListMatters(CfgSkeleton(n, body))
              /\ prog = CreatedIn(CfgSkeleton(n, body), o)
    /\ tie \in {EveryCall(t, NumBB(prog.blocks)) :
                   t \in {u \in {StableTies(NumBB(prog.blocks)), ReversedTies(NumBB(prog.blocks))} :
                             u = StableTies(NumBB(prog.blocks)) \/ prog.created = BlockOrder}}
    /\ phase = "order"
    /\ err = ""
    /\ ordering = <<>>
    /\ queue = <<>>
    /\ in_queue = [b \in DOMAIN prog.blocks |-> FALSE]
    /\ states = [b \in DOMAIN prog.blocks |-> FreshRefState]
    /\ nruns = [b \in DOMAIN prog.blocks |-> 0]
    /\ last = [idx |-> NoBlock, firsttime |-> FALSE, changed |-> FALSE, orig_ending_refs |-> <<>>]
    /\ ir = prog.blocks
    /\ cache = EmptyMap
    /\ cursor = 0
    /\ emitted = EmptyMap
    /\ fixups = EmptyMap
    /\ walk = IdleWalk(prog)

OrderSpec == OrderInit /\ [][ComputeOrder]_vars

\* the blocks from which a block of S can be reached along branches
RECURSIVE ReachesInto(_, _)
ReachesInto(blocks, S) ==
    LET more == {b \in DOMAIN blocks : \E s \in S : s \in Range(blocks[b][Len(blocks[b])].succs)}
    IN IF more \subseteq S THEN S ELSE ReachesInto(blocks, S \cup more)

\* the blocks that can reach a block with no successors
ReachAnExit(blocks) ==
    ReachesInto(blocks, {b \in DOMAIN blocks : blocks[b][Len(blocks[b])].succs = <<>>})

\* C18 (traversal ordering is total or rejected): when every block can reach a block with
\* no successors the ordering holds every block index exactly once; when some block cannot,
\* no seed is found and the function is rejected with the failed assertion best != -1.
OrderingTotalOrRejected ==
    phase # "order" =>
        IF ReachAnExit(prog.blocks) = DOMAIN prog.blocks
        THEN /\ ~(phase = "failed" /\ err = "best != -1")
             /\ Len(ordering) = Cardinality(DOMAIN prog.blocks)
             /\ Range(ordering) = DOMAIN prog.blocks
        ELSE /\ phase = "failed"
             /\ err = "best != -1"
             /\ Range(ordering) \ {NoBlock} = ReachAnExit(prog.blocks)

\* a function with a block that cannot reach an exit was rejected after its exits, and the
\* blocks that reach them, were ordered
OrderingRejected ==
    /\ phase = "failed"
    /\ err = "best != -1"
    /\ ReachAnExit(prog.blocks) \notin {{}, DOMAIN prog.blocks}
    /\ Range(ordering) = ReachAnExit(prog.blocks) \cup {NoBlock}

-----------------------------------------------------------------------------
(* C19: the merge rule, stated over the summaries recorded before the block is processed *)

\* the successors of b that had been run before this processing of b
RunBefore(b) == {s \in Range(prog.blocks[b][Len(prog.blocks[b])].succs) : states[s].been_run}

\* s.ending_refs.get(v, 0) in the recorded summary of s
RecordedRefs(s, v) ==
    IF \E e \in Range(states[s].ending_refs) : e.k = v
    THEN (CHOOSE e \in Range(states[s].ending_refs) : e.k = v).n
    ELSE 0

ListedBySuccessors(b) == {e.k : e \in UNION {Range(states[s].ending_refs) : s \in RunBefore(b)}}

\* the minimum over the run successors, raised to 1 for an OWNED value
RuleStart(b, v) ==
    LET m == CHOOSE x \in {RecordedRefs(s, v) : s \in RunBefore(b)} :
                 \A y \in {RecordedRefs(s, v) : s \in RunBefore(b)} : x <= y
    IN IF prog.vars[v].reftype = OWNED /\ m < 1 THEN 1 ELSE m

RuleStartingRefs(b) == {<<v, RuleStart(b, v)>> : v \in {w \in ListedBySuccessors(b) : RuleStart(b, w) > 0}}

RuleIncrements(b) ==
    {<<v, RecordedRefs(s, v) - RuleStart(b, v), s>> : <<v, s>> \in
        {x \in ListedBySuccessors(b) \X RunBefore(b) : RecordedRefs(x[2], x[1]) > RuleStart(b, x[1])}}

RuleDecrements(b) ==
    {<<v, RuleStart(b, v) - RecordedRefs(s, v), s>> : <<v, s>> \in
        {x \in ListedBySuccessors(b) \X RunBefore(b) : RecordedRefs(x[2], x[1]) < RuleStart(b, x[1])}}

\* the solver processes block b in this step and goes on
Processes(b) ==
    /\ phase = "solve"
    /\ phase' = "solve"
    /\ OrdererPop(queue) = b
    /\ nruns'[b] = nruns[b] + 1

MergedByRule(b) ==
    /\ {<<e.k, e.n>> : e \in Range(states'[b].starting_refs)} = RuleStartingRefs(b)
    /\ prog.blocks[b][Len(prog.blocks[b])].kind \in {"br", "condbr"} =>
          /\ OnEdgesFrom(states'[b].increfs, b) = RuleIncrements(b)
          /\ OnEdgesFrom(states'[b].decrefs, b) = RuleDecrements(b)

\* C19 (merge rule): when block B is processed, starting_refs holds, for every value listed
\* by a successor that has been run, the minimum of the successors' recorded counts, raised
\* to 1 for an OWNED value and left out when 0, and the edges to those successors carry the
\* increments and decrements that make up the differences; successors not yet run are
\* ignored.
MergeFollowsRecordedSummaries ==
    [][\A b \in DOMAIN prog.blocks : Processes(b) => MergedByRule(b)]_vars

-----------------------------------------------------------------------------
(* C20: the convergence trigger *)

\* a summary as a set of value/count pairs, insertion order left out
AsPairs(m) == {<<e.k, e.n>> : e \in Range(m)}

QueuedBlocks(q) == {q[i][1] : i \in 1..Len(q)}

PredecessorSet(b) == {p \in DOMAIN prog.blocks : b \in Range(prog.blocks[p][Len(prog.blocks[p])].succs)}

\* this processing of b is its first, or leaves it an ending_refs with other keys or counts
Triggers(b) == ~states[b].been_run \/ AsPairs(states[b].ending_refs) # AsPairs(states'[b].ending_refs)

RequeuedByRule(b) ==
    IF Triggers(b)
    THEN /\ QueuedBlocks(queue') = (QueuedBlocks(queue) \ {b}) \cup PredecessorSet(b)
         /\ \A p \in PredecessorSet(b) : in_queue'[p]
    ELSE /\ QueuedBlocks(queue') = QueuedBlocks(queue) \ {b}
         /\ Len(queue') = Len(queue) - 1
         /\ in_queue' = [in_queue EXCEPT ![b] = FALSE]

\* C20 (convergence trigger): after block B is processed every predecessor of B is in the
\* queue if this was B's first run or its new ending_refs differs from the previous one in
\* its keys or in a count, whatever the insertion order; otherwise nothing is enqueued.
PredecessorsRequeuedOnChange ==
    [][\A b \in DOMAIN prog.blocks : Processes(b) => RequeuedByRule(b)]_vars

\* a block with predecessors was processed again, its ending_refs came out with the same
\* keys and counts in another insertion order, and none of its predecessors was enqueued
RerunLeftQueueAlone ==
    /\ phase = "solve"
    /\ last.idx # NoBlock
    /\ ~last.firsttime
    /\ nruns[last.idx] > 1
    /\ AsPairs(last.orig_ending_refs) = AsPairs(states[last.idx].ending_refs)
    /\ last.orig_ending_refs # states[last.idx].ending_refs
    /\ PredecessorSet(last.idx) # {}
    /\ PredecessorSet(last.idx) \cap QueuedBlocks(queue) = {}

-----------------------------------------------------------------------------
(* C21: definition accounting *)

\* the scan of the block processed last as it stands when it reaches instruction i: the
\* merge done and the instructions after i scanned
ReachedByScan(i) ==
    ScanDownTo(prog, last.idx, Len(prog.blocks[last.idx]), i + 1,
               MergeFromSuccessors(prog, states, last.idx))

\* the count a summary holds for v, 0 when v is missing
CountIn(m, v) == IF \E e \in Range(m) : e.k = v THEN (CHOOSE e \in Range(m) : e.k = v).n ELSE 0

\* the instructions of the block processed last that are not invokes and define a tracked value
Definitions ==
    IF last.idx = NoBlock \/ err # "" THEN {}
    ELSE {i \in 1..Len(prog.blocks[last.idx]) :
             /\ prog.blocks[last.idx][i].kind # "invoke"
             /\ prog.blocks[last.idx][i].def \in DOMAIN prog.vars}

DefinedAt(i) == prog.blocks[last.idx][i].def

DefiningCount(v) == IF prog.vars[v].reftype = OWNED THEN 1 ELSE 0

\* the first instruction after i that is not a phi
AfterPhis(i) ==
    CHOOSE j \in (i + 1)..Len(prog.blocks[last.idx]) :
        /\ prog.blocks[last.idx][j].kind # "phi" \/ j = Len(prog.blocks[last.idx])
        /\ \A k \in (i + 1)..(j - 1) : prog.blocks[last.idx][k].kind = "phi"

\* the ops of a plan of the block processed last for the value defined at i, sited at an
\* instruction between i and the first instruction after i that is not a phi
SitedAfter(ops, i) ==
    SelectSeq(ops, LAMBDA op : /\ op.operand = DefinedAt(i)
                               /\ op.insertion_inst # NoAnchor
                               /\ op.insertion_inst[1] = last.idx
                               /\ op.insertion_inst[2] > i
                               /\ op.insertion_inst[2] <= AfterPhis(i))

DefinitionAdjusted(i) ==
    LET v == DefinedAt(i)
        have == CountIn(ReachedByScan(i).ending_refs, v)
        site == <<last.idx, AfterPhis(i)>>
    IN /\ SitedAfter(states[last.idx].increfs, i)
             = IF have > DefiningCount(v)
               THEN <<RefOp(v, prog.vars[v].nullable, have - DefiningCount(v), site, NoBlock, NoBlock)>>
               ELSE <<>>
       /\ SitedAfter(states[last.idx].decrefs, i)
             = IF have < DefiningCount(v)
               THEN <<RefOp(v, prog.vars[v].nullable, DefiningCount(v) - have, site, NoBlock, NoBlock)>>
               ELSE <<>>
       /\ CountIn(ScanDefinition(prog, last.idx, i, ReachedByScan(i)).ending_refs, v) = 0

\* the values a block defines by an instruction that is not an invoke
DefinedIn(b) ==
    {prog.blocks[b][i].def : i \in {j \in 1..Len(prog.blocks[b]) : prog.blocks[b][j].kind # "invoke"}}

\* C21 (definition accounting): where the backward scan reaches a non-invoke instruction I
\* defining a tracked value v, the plan holds, right after I and any phis that follow it,
\* one increment of ending_refs[v] - defining count when that is positive, one decrement of
\* the difference when it is negative, nothing when they are equal; v is removed, and no
\* block's recorded ending_refs holds a value the block itself defines.
DefinitionAccounting ==
    /\ \A i \in Definitions : DefinitionAdjusted(i)
    /\ err = "" => \A b \in DOMAIN prog.blocks :
                      \A e \in Range(states[b].ending_refs) : e.k \notin DefinedIn(b)

\* the block processed last defines a value by a phi that another phi follows; the scan
\* held more references of it than the definition provides, and the increment was planned
\* after the second phi
DefinitionGotIncrement ==
    \E i \in Definitions :
        /\ AfterPhis(i) > i + 1
        /\ CountIn(ReachedByScan(i).ending_refs, DefinedAt(i)) > DefiningCount(DefinedAt(i))
        /\ Len(SitedAfter(states[last.idx].increfs, i)) = 1

-----------------------------------------------------------------------------
(* C22: pre-call flushing *)

\* the instructions of the block processed last that may raise
MayRaiseInsts ==
    IF last.idx = NoBlock \/ err # "" THEN {}
    ELSE {i \in 1..Len(prog.blocks[last.idx]) :
             prog.blocks[last.idx][i].may_throw /\ prog.blocks[last.idx][i].kind # "phi"}

\* ending_refs as the flush of instruction i finds it: the later instructions scanned and
\* the definition step of i done
BeforeFlush(i) == ScanDefinition(prog, last.idx, i, ReachedByScan(i)).ending_refs

AfterFlush(i) == ScanFlush(prog, last.idx, i, ScanDefinition(prog, last.idx, i, ReachedByScan(i))).ending_refs

\* the increments of v the plan of the block processed last holds immediately after instruction i
IncrefsAfter(i, v) ==
    SelectSeq(states[last.idx].increfs,
              LAMBDA op : op.operand = v /\ op.insertion_inst = <<last.idx, i + 1>>)

Flushed(i) ==
    /\ \A e \in Range(BeforeFlush(i)) :
          IncrefsAfter(i, e.k)
              = IF e.n > DefiningCount(e.k)
                THEN <<RefOp(e.k, prog.vars[e.k].nullable, e.n - DefiningCount(e.k),
                             <<last.idx, i + 1>>, NoBlock, NoBlock)>>
                ELSE <<>>
    /\ AsPairs(AfterFlush(i))
          = {<<e.k, 1>> : e \in {x \in Range(BeforeFlush(i)) : prog.vars[x.k].reftype = OWNED}}

\* C22 (pre-call flushing): where the backward scan reaches a may-raise instruction I, each
\* value of ending_refs that holds more than its structural need (1 if OWNED, else 0) gets
\* one increment of exactly the surplus immediately after I, a value that holds no more
\* gets none, and afterwards ending_refs holds every OWNED value with count 1 and no other
\* value.
PreCallFlushing == \A i \in MayRaiseInsts : Flushed(i)

\* a may-raise instruction of the block processed last found an OWNED value with two
\* references and a BORROWED value with one, and both got their increment
FlushedOwnedAndBorrowed ==
    \E i \in MayRaiseInsts :
        /\ \E e \in Range(BeforeFlush(i)) :
              prog.vars[e.k].reftype = OWNED /\ e.n > 1 /\ Len(IncrefsAfter(i, e.k)) = 1
        /\ \E e \in Range(BeforeFlush(i)) :
              prog.vars[e.k].reftype = BORROWED /\ e.n > 0 /\ Len(IncrefsAfter(i, e.k)) = 1

-----------------------------------------------------------------------------
(* C23: stolen references and the fixup *)

\* the may-raise instructions of the block processed last, paired with a value they consume
RaisingConsumers ==
    {c \in MayRaiseInsts \X DOMAIN prog.vars : c[2] \in Range(prog.blocks[last.idx][c[1]].consumed)}

\* how often instruction i consumes v
TimesConsumed(i, v) ==
    Cardinality({j \in 1..Len(prog.blocks[last.idx][i].consumed) :
                    prog.blocks[last.idx][i].consumed[j] = v})

\* how often v is listed by the fixup the block processed last recorded for instruction i
FixupCount(i, v) ==
    Cardinality({x \in UNION {{<<k, j>> : j \in 1..Len(states[last.idx].cxx_fixups[k].to_decref)} :
                                 k \in 1..Len(states[last.idx].cxx_fixups)} :
                    /\ states[last.idx].cxx_fixups[x[1]].inst = <<last.idx, i>>
                    /\ states[last.idx].cxx_fixups[x[1]].to_decref[x[2]] = v})

\* ending_refs above instruction i, all steps of i done
AboveInst(i) ==
    ScanDownTo(prog, last.idx, Len(prog.blocks[last.idx]), i,
               MergeFromSuccessors(prog, states, last.idx)).ending_refs

\* C23 (stolen references are added after fixup capture): for a may-raise instruction I
\* that consumes v k times, the fixup of I lists v as often as ending_refs holds it before
\* the consumed references are added, and ending_refs[v] above I is k larger than that.
StolenAddedAfterFixup ==
    \A c \in RaisingConsumers :
        /\ FixupCount(c[1], c[2]) = CountIn(AfterLastUseStep(c[1]).ending_refs, c[2])
        /\ CountIn(AboveInst(c[1]), c[2]) = FixupCount(c[1], c[2]) + TimesConsumed(c[1], c[2])

\* a may-raise instruction of the block processed last consumes a value that is still
\* needed after it: the fixup lists the value once and ending_refs above holds it twice
FixupWithoutStolen ==
    \E c \in RaisingConsumers :
        /\ FixupCount(c[1], c[2]) = 1
        /\ CountIn(AboveInst(c[1]), c[2]) = 2

-----------------------------------------------------------------------------
(* C24: a last use by an invoke *)

\* the blocks that have been processed and end in an invoke, paired with an OWNED value the
\* invoke uses more often than it consumes it and that no successor needs
InvokeLastUses ==
    IF err # "" THEN {}
    ELSE {c \in (DOMAIN prog.blocks) \X (DOMAIN prog.vars) :
             LET I == prog.blocks[c[1]][Len(prog.blocks[c[1]])]
             IN /\ states[c[1]].been_run
                /\ I.kind = "invoke"
                /\ prog.vars[c[2]].reftype = OWNED
                /\ Cardinality({j \in 1..Len(I.ops) : I.ops[j] = c[2]})
                       + Cardinality({j \in 1..Len(I.used) : I.used[j] = c[2]})
                     > Cardinality({j \in 1..Len(I.consumed) : I.consumed[j] = c[2]})
                /\ CountIn(states[c[1]].starting_refs, c[2]) = 0}

\* C24 (invoke last use): when the last use of an OWNED value v is an invoke, the block's
\* plan holds exactly two decrements of v, each of count 1, the first on the edge to the
\* invoke's normal destination and the second on the edge to its unwind destination; none
\* is sited at an instruction.
InvokeLastUseDecrements ==
    \A c \in InvokeLastUses :
        SelectSeq(states[c[1]].decrefs, LAMBDA op : op.operand = c[2])
            = <<RefOp(c[2], prog.vars[c[2]].nullable, 1, NoAnchor,
                      prog.blocks[c[1]][Len(prog.blocks[c[1]])].succs[1], c[1]),
                RefOp(c[2], prog.vars[c[2]].nullable, 1, NoAnchor,
                      prog.blocks[c[1]][Len(prog.blocks[c[1]])].succs[2], c[1])>>

\* the pass ran to the end on a function where an invoke is the last use of a value, and
\* both decrements were emitted, one at the head of each destination
InvokeLastUseEmitted ==
    /\ phase = "walk"
    /\ \E c \in InvokeLastUses :
          LET I == prog.blocks[c[1]][Len(prog.blocks[c[1]])]
          IN /\ I.succs[1] # I.succs[2]
             /\ \A s \in {I.succs[1], I.succs[2]} :
                   /\ <<s, c[1]>> \in DOMAIN cache
                   /\ cache[<<s, c[1]>>] \in DOMAIN emitted
                   /\ \E o \in Range(emitted[cache[<<s, c[1]>>]]) : o.kind = "dec" /\ o.v = c[2]

-----------------------------------------------------------------------------
(* C25: the entry block *)

\* what the backward scan of the entry block leaves in ending_refs, when the entry block is
\* the block processed last
LeftAtEntry == AboveInst(1)

\* a BORROWED function argument, global or constant
MayEnterLive(v) ==
    prog.vars[v].reftype = BORROWED /\ prog.vars[v].kind \in {"arg", "global", "const"}

\* the increments the entry block plans at its own top
TopOfEntryIncrefs ==
    SelectSeq(states[EntryBlock].increfs,
              LAMBDA op : op.insertion_inst = NoAnchor /\ op.insertion_bb = EntryBlock
                          /\ op.insertion_from_bb = NoBlock)

\* C25 (entry block): when the entry block has been processed and a value the scan left in
\* ending_refs is not a BORROWED argument, global or constant, the pass has stopped on a
\* failed assertion; otherwise one increment per remaining value, of its remaining count,
\* is planned at the top of the entry block, in the order of ending_refs; and the entry
\* block's recorded ending_refs is empty after every run.
EntryBlockSettled ==
    /\ (last.idx = EntryBlock /\ phase = "solve") =>
          /\ \A e \in Range(LeftAtEntry) : MayEnterLive(e.k) /\ e.n > 0
          /\ TopOfEntryIncrefs
                = [k \in 1..Len(LeftAtEntry) |->
                      RefOp(LeftAtEntry[k].k, prog.vars[LeftAtEntry[k].k].nullable,
                            LeftAtEntry[k].n, NoAnchor, EntryBlock, NoBlock)]
    /\ (last.idx = EntryBlock /\ \E e \in Range(LeftAtEntry) : ~MayEnterLive(e.k)) =>
          /\ phase = "failed"
          /\ err = "value live at entry is not a borrowed argument, global or constant"
    /\ err = "" => states[EntryBlock].ending_refs = <<>>

\* the entry block was processed with a borrowed argument still needed, and the increment
\* was planned
EntryIncrefPlanned ==
    /\ last.idx = EntryBlock
    /\ phase = "solve"
    /\ LeftAtEntry # <<>>
    /\ Len(TopOfEntryIncrefs) = Len(LeftAtEntry)
    /\ states[EntryBlock].ending_refs = <<>>

-----------------------------------------------------------------------------
(* C26: the base ordering *)

SuccessorSet(b) == Range(prog.blocks[b][Len(prog.blocks[b])].succs)

\* the blocks with no successors
Exits == {b \in DOMAIN prog.blocks : prog.blocks[b][Len(prog.blocks[b])].succs = <<>>}

\* no block can reach itself
Acyclic == \A b \in DOMAIN prog.blocks : \A s \in SuccessorSet(b) : s \notin ReachesInto(prog.blocks, {b})

PlaceOf(b) == CHOOSE k \in 1..Len(ordering) : ordering[k] = b

\* C26 (base ordering): the ordering starts with all exit blocks in block-index order, and
\* for an acyclic control-flow graph every block stands in it after all of its successors.
BaseOrdering ==
    phase # "order" =>
        /\ Len(ordering) >= Cardinality(Exits)
        /\ \A k \in 1..Cardinality(Exits) :
              /\ ordering[k] \in Exits
              /\ \A j \in 1..(k - 1) : ordering[j] < ordering[k]
        /\ Acyclic =>
              /\ Range(ordering) = DOMAIN prog.blocks
              /\ \A b \in DOMAIN prog.blocks : \A s \in SuccessorSet(b) : PlaceOf(s) < PlaceOf(b)

\* an acyclic function with two exits and a block that branches two ways was ordered
AcyclicOrdered ==
    /\ phase = "solve"
    /\ Acyclic
    /\ Cardinality(Exits) > 1
    /\ \E b \in DOMAIN prog.blocks : Cardinality(SuccessorSet(b)) > 1

-----------------------------------------------------------------------------
(* C27: the seed that breaks a cycle *)

\* the blocks ordered before place k
OrderedBefore(k) == {ordering[j] : j \in 1..(k - 1)}

\* how many of the branches of b lead to a block ordered before place k
VisitedSuccessors(b, k) ==
    Cardinality({j \in 1..Len(prog.blocks[b][Len(prog.blocks[b])].succs) :
                    prog.blocks[b][Len(prog.blocks[b])].succs[j] \in OrderedBefore(k)})

\* the places of the ordering filled by a block that still had a successor to be ordered:
\* the seeds picked because no block was left with all its successors ordered
SeedPlaces ==
    IF phase = "order" THEN {}
    ELSE {k \in 1..Len(ordering) :
             /\ ordering[k] # NoBlock
             /\ \E s \in SuccessorSet(ordering[k]) : s \notin OrderedBefore(k)}

\* the blocks not ordered before place k with at least one successor ordered before it
SeedCandidates(k) ==
    {b \in DOMAIN prog.blocks : b \notin OrderedBefore(k) /\ VisitedSuccessors(b, k) > 0}

\* the call of std::sort that picked the seed at place k: one call for every seed
CallOf(k) == Cardinality({j \in SeedPlaces : j <= k})

\* c stands before d in the sorted list of candidates: by descending count, ties as this
\* call of the sort leaves them
SortedBefore(c, d, k) ==
    \/ VisitedSuccessors(c, k) > VisitedSuccessors(d, k)
    \/ /\ VisitedSuccessors(c, k) = VisitedSuccessors(d, k)
       /\ TiePlace(TieOfCall(tie, CallOf(k), NumBB(prog.blocks)), c)
             < TiePlace(TieOfCall(tie, CallOf(k), NumBB(prog.blocks)), d)

\* d can be reached from c along branches
ReachableFrom(c, d) == c \in ReachesInto(prog.blocks, {d})

\* C27 (cycle tie-break) as the spec states it: the seed has the most visited successors
\* among the candidates.
SeedHasMostVisitedSuccessors ==
    \A k \in SeedPlaces :
        /\ ordering[k] \in SeedCandidates(k)
        /\ \A c \in SeedCandidates(k) : VisitedSuccessors(c, k) <= VisitedSuccessors(ordering[k], k)

\* C27 (cycle tie-break) as the code does it: with the candidates sorted by descending count
\* of visited successors, the seed is the last candidate of the list that cannot be reached
\* from a candidate standing before it; every candidate after it can be reached from the
\* seed or from a candidate before the seed.
SeedIsLastUnreachedCandidate ==
    \A k \in SeedPlaces :
        /\ ordering[k] \in SeedCandidates(k)
        /\ \A c \in SeedCandidates(k) :
              SortedBefore(c, ordering[k], k) => ~ReachableFrom(c, ordering[k])
        /\ \A d \in SeedCandidates(k) :
              SortedBefore(ordering[k], d, k) =>
                  \E c \in SeedCandidates(k) :
                      /\ c = ordering[k] \/ SortedBefore(c, ordering[k], k)
                      /\ ReachableFrom(c, d)

\* a seed was picked that has fewer visited successors than another candidate
SeedWithFewerVisitedSuccessors ==
    \E k \in SeedPlaces : \E c \in SeedCandidates(k) :
        VisitedSuccessors(c, k) > VisitedSuccessors(ordering[k], k)

-----------------------------------------------------------------------------
(* BlockOrderer under every sequence of add and pop calls: lines 649-691 *)

\* the largest number of blocks the worklist is built for
MaxQueued == 3

\* the orders a BlockOrderer of n blocks can be built from
OrderVectors(n) == {o \in [1..n -> 0..(n - 1)] : \A i, j \in 1..n : o[i] = o[j] => i = j}

WorklistInit ==
    /\ \E n \in 1..MaxQueued :
          /\ prog = CfgSkeleton(n, [i \in 1..n |-> Ret(<<>>, <<>>)])
          /\ ordering \in OrderVectors(n)
    /\ tie = <<>>
    /\ phase = "worklist"
    /\ err = ""
    /\ queue = <<>>
    /\ in_queue = [b \in DOMAIN prog.blocks |-> FALSE]
    /\ states = [b \in DOMAIN prog.blocks |-> FreshRefState]
    /\ nruns = [b \in DOMAIN prog.blocks |-> 0]
    /\ last = [call |-> "none", idx |-> NoBlock, returned |-> NoBlock, queued |-> <<>>]
    /\ ir = prog.blocks
    /\ cache = EmptyMap
    /\ cursor = 0
    /\ emitted = EmptyMap
    /\ fixups = EmptyMap
    /\ walk = IdleWalk(prog)

\* orderer.add(idx), lines 671-677
AddCall ==
    /\ phase = "worklist"
    /\ \E idx \in DOMAIN prog.blocks :
          LET r == OrdererAdd(ordering, queue, in_queue, idx)
          IN /\ queue' = r.q
             /\ in_queue' = r.inq
             /\ last' = [call |-> "add", idx |-> idx, returned |-> NoBlock, queued |-> queue]
    /\ UNCHANGED <<prog, tie, phase, err, ordering, states, nruns, ir, cache, cursor, emitted,
                   fixups, walk>>

\* orderer.pop(), lines 679-690
PopCall ==
    /\ phase = "worklist"
    /\ LET idx == OrdererPop(queue)
       IN /\ last' = [call |-> "pop", idx |-> NoBlock, returned |-> idx, queued |-> queue]
          /\ IF idx = NoBlock
             THEN UNCHANGED <<queue, in_queue>>
             ELSE /\ queue' = QueueWithoutTop(queue)
                  /\ in_queue' = [in_queue EXCEPT ![idx] = FALSE]
    /\ UNCHANGED <<prog, tie, phase, err, ordering, states, nruns, ir, cache, cursor, emitted,
                   fixups, walk>>

WorklistNext ==
    \/ AddCall
    \/ PopCall

WorklistSpec == WorklistInit /\ [][WorklistNext]_vars

\* the place of block b in the order the worklist was built from, counted from 0
PlaceInOrder(b) == Cardinality({j \in 1..Len(ordering) : \E k \in (j + 1)..Len(ordering) : ordering[k] = b})

\* C28 (worklist discipline): the worklist never holds a block twice, an add of a queued
\* block changes nothing, every entry carries the priority of its block so any two entries
\* differ in priority, and a pop returns the queued block with the smallest priority number
\* and takes it out, or returns -1 when the worklist is empty.
WorklistDiscipline ==
    /\ \A i, j \in 1..Len(queue) : queue[i][1] = queue[j][1] => i = j
    /\ \A i, j \in 1..Len(queue) : queue[i][2] = queue[j][2] => i = j
    /\ \A i \in 1..Len(queue) : queue[i][2] = PlaceInOrder(queue[i][1])
    /\ \A b \in DOMAIN in_queue : in_queue[b] <=> b \in QueuedBlocks(queue)
    /\ last.call = "add" =>
          /\ last.idx \in QueuedBlocks(queue)
          /\ last.idx \in QueuedBlocks(last.queued) => queue = last.queued
    /\ last.call = "pop" =>
          IF last.queued = <<>>
          THEN last.returned = NoBlock /\ queue = <<>>
          ELSE /\ last.returned \in QueuedBlocks(last.queued)
               /\ \A b \in QueuedBlocks(last.queued) : PlaceInOrder(last.returned) <= PlaceInOrder(b)
               /\ QueuedBlocks(queue) = QueuedBlocks(last.queued) \ {last.returned}
               /\ Len(queue) = Len(last.queued) - 1

\* a pop of a worklist of three blocks returned the block that was added last
PopReturnedLatestAdded ==
    /\ last.call = "pop"
    /\ Len(last.queued) = 3
    /\ last.returned = last.queued[3][1]

-----------------------------------------------------------------------------
(* C29: the fixed point *)

\* the references the ops of a plan that sit on the edge b -> s add up to for v
RECURSIVE RefsOnEdge(_, _, _, _)
RefsOnEdge(ops, b, s, v) ==
    IF ops = <<>> THEN 0
    ELSE (IF /\ Head(ops).operand = v
             /\ Head(ops).insertion_inst = NoAnchor
             /\ Head(ops).insertion_bb = s
             /\ Head(ops).insertion_from_bb = b
          THEN Head(ops).num_refs ELSE 0)
         + RefsOnEdge(Tail(ops), b, s, v)

\* what block b hands to its successor s for v: what it inherits, adjusted by what it plans
\* on the edge
HandedOver(b, s, v) ==
    CountIn(states[b].starting_refs, v)
        + RefsOnEdge(states[b].increfs, b, s, v) - RefsOnEdge(states[b].decrefs, b, s, v)

\* C29 (fixed point at termination): when the worklist is empty every block has been run,
\* and on every edge B -> S, for every value v, what B inherits for v plus the increments
\* minus the decrements B plans on the edge is the count S's ending_refs holds for v. The
\* two decrements an invoke plans on its out-edges for a value whose last use it is are not
\* part of the merge and are left out.
PlansMatchFinalSummaries ==
    phase \in {"find", "emit", "yields", "walk"} =>
        \A b \in DOMAIN prog.blocks :
            /\ states[b].been_run
            /\ \A s \in SuccessorSet(b) : \A v \in DOMAIN prog.vars :
                  <<b, v>> \notin InvokeLastUses =>
                      HandedOver(b, s, v) = CountIn(states[s].ending_refs, v)

-----------------------------------------------------------------------------
(* C30: the counts of the planned ops *)

\* every op of the plan, as a set
PlannedDecrements == UNION {Range(states[b].decrefs) : b \in DOMAIN states}
PlannedIncrements == UNION {Range(states[b].increfs) : b \in DOMAIN states}

\* the two failures of the emitter that a count can cause: lines 265-269 and 212, 278, 300
CountTraps == {"num_refs > 0", "Whoa more than one decref??"}

\* C30 (decrement counts): every planned decrement, wherever it is sited, is for an OWNED
\* value and has count exactly 1, and every planned increment has count at least 1; the
\* emitter therefore never stops on a count.
DecrementsSingleAndOwned ==
    /\ \A op \in PlannedDecrements :
          op.num_refs = 1 /\ RefTypeOf(prog, op.operand) = OWNED
    /\ \A op \in PlannedIncrements : op.num_refs >= 1
    /\ err \notin CountTraps

\* the whole plan was emitted, and it held a decrement the merge of a conditional branch put
\* on an edge, a decrement sited at an instruction, and an increment
CountedPlanEmitted ==
    /\ phase \in {"yields", "walk"}
    /\ \E op \in PlannedDecrements :
          /\ op.insertion_inst = NoAnchor
          /\ Terminator(prog.blocks, op.insertion_from_bb).kind = "condbr"
    /\ \E op \in PlannedDecrements : op.insertion_inst # NoAnchor
    /\ PlannedIncrements # {}

-----------------------------------------------------------------------------
(* C31: what a fixup lists *)

\* every fixup any block's plan holds
RecordedFixups == UNION {Range(states[b].cxx_fixups) : b \in DOMAIN states}

\* the fixups the block processed last recorded for its instruction i
FixupsAt(i) == {f \in Range(states[last.idx].cxx_fixups) : f.inst = <<last.idx, i>>}

\* the OWNED values a raise of instruction i of the block processed last would leave held:
\* those a later instruction still needs and those i itself uses without consuming them
LiveAt(i) ==
    {v \in DOMAIN prog.vars :
        /\ prog.vars[v].reftype = OWNED
        /\ \/ CountIn(BeforeFlush(i), v) > 0
           \/ NumTimesAsOp(prog, prog.blocks[last.idx][i], v)
                  > NumConsumedByInst(prog.blocks[last.idx][i], v)}

\* C31 (what a fixup lists): every recorded fixup lists only OWNED values and each of them
\* once, and the fixup of a may-raise instruction lists exactly the OWNED values live at
\* that instruction, so the count handed to the unwind helper is their number; an
\* instruction at which none is live has no fixup.
FixupListsOwnedOnce ==
    /\ \A f \in RecordedFixups :
          /\ \A j \in DOMAIN f.to_decref : prog.vars[f.to_decref[j]].reftype = OWNED
          /\ \A j, k \in DOMAIN f.to_decref : f.to_decref[j] = f.to_decref[k] => j = k
    /\ \A i \in MayRaiseInsts :
          /\ \A f \in FixupsAt(i) :
                /\ Range(f.to_decref) = LiveAt(i)
                /\ Len(f.to_decref) = Cardinality(LiveAt(i))
          /\ (FixupsAt(i) = {}) = (LiveAt(i) = {})

\* a may-raise instruction of the block processed last found an OWNED value held twice and
\* a BORROWED value held once; its fixup lists the OWNED value once and the other not at all
FixupAfterFlush ==
    \E i \in MayRaiseInsts :
        /\ \E e \in Range(BeforeFlush(i)) :
              prog.vars[e.k].reftype = OWNED /\ e.n > 1 /\ FixupCount(i, e.k) = 1
        /\ \E e \in Range(BeforeFlush(i)) :
              prog.vars[e.k].reftype = BORROWED /\ e.n > 0 /\ FixupCount(i, e.k) = 0

-----------------------------------------------------------------------------
(* C32: the solver on an acyclic graph *)

\* every control-flow graph of up to MaxCfgBlocks blocks in which no block can reach itself
AcyclicInit == OrderInit /\ Acyclic

\* lines 842-845 and 866-1206: the ordering and the solver loop, nothing after it
SolverNext ==
    \/ ComputeOrder
    \/ SolveStep
    \/ SolveDone

AcyclicSpec == AcyclicInit /\ [][SolverNext]_vars

\* the solver has left its loop with an empty worklist
WorklistDrained == phase \in {"find", "emit", "yields", "walk"}

\* a step that processes block b
Processed(b) == nruns'[b] # nruns[b]

\* C32 (one run per block on an acyclic graph): when no block of the function can reach
\* itself, a block is processed only when it has not been processed before and every one of
\* its successors has been, and once the worklist is empty every block has been processed
\* exactly once; the predecessors a first run adds to the worklist are all still queued.
AcyclicSolvedInOnePass ==
    /\ [][Acyclic => \A b \in DOMAIN prog.blocks :
                        Processed(b) => /\ nruns[b] = 0
                                        /\ nruns'[b] = 1
                                        /\ \A s \in SuccessorSet(b) : nruns[s] = 1
                                        /\ \A p \in PredecessorSet(b) : in_queue[p]]_vars
    /\ [](Acyclic /\ WorklistDrained => \A b \in DOMAIN prog.blocks : nruns[b] = 1)

\* an acyclic function with a block that two blocks branch to and a block that branches
\* to two, solved to the end
AcyclicSolved ==
    /\ Acyclic
    /\ WorklistDrained
    /\ \E b \in DOMAIN prog.blocks : Cardinality(PredecessorSet(b)) > 1
    /\ \E b \in DOMAIN prog.blocks : Cardinality(SuccessorSet(b)) > 1
    /\ \A b \in DOMAIN prog.blocks : nruns[b] = 1

-----------------------------------------------------------------------------
(* C33: the insertion anchors during emission *)

\* the blocks whose plan the second loop has emitted
EmittedBlocks ==
    IF phase = "emit" THEN {b \in DOMAIN prog.blocks : b < cursor}
    ELSE IF phase \in {"yields", "walk"} THEN DOMAIN prog.blocks
    ELSE {}

\* the instructions the ops of block b are inserted before
AnchorsUsedBy(b) ==
    {InsertionPt(cache, op) : op \in Range(states[b].increfs) \cup Range(states[b].decrefs)}

\* the calls the fixups of the blocks emitted before block b have replaced and erased
ErasedBefore(b) ==
    UNION {{f.inst : f \in Range(states[a].cxx_fixups)} : a \in {x \in DOMAIN prog.blocks : x < b}}

\* C33 (insertion anchors stay valid): every anchor an emitted op was inserted before, its
\* own insertion instruction or the cached insertion point of its edge, is an instruction
\* of the function that no fixup of an earlier-indexed block has erased, and emission never
\* stops on an erased insertion point.
AnchorsStayValid ==
    /\ err # "insertion point was erased"
    /\ \A b \in EmittedBlocks :
          /\ AnchorsUsedBy(b) \cap ErasedBefore(b) = {}
          /\ \A a \in AnchorsUsedBy(b) : a[1] \in DOMAIN ir /\ a[2] \in DOMAIN ir[a[1]]

-----------------------------------------------------------------------------
(* C34: the yield call sites when the rewrite runs *)

\* emission is over: the rewrite of the yields is running or has run
RewriteReached == phase \in {"yields", "walk"}

\* the yield at anchor a is still the call that was recorded, in the block the block index
\* knows it by
YieldInPlace(a) ==
    /\ a \notin DOMAIN fixups
    /\ ~MovedToNewBlock(emitted, fixups, a[1], a[2])

\* C34 (yields stay where they were indexed): when the yield rewrite runs, no recorded yield
\* call has been erased by a fixup and none has been moved into a new block by a nullable
\* increment or decrement or a fixup that split its block in front of it, so the summary
\* the rewrite consults for a yield is that of the block that contained it.
YieldsStayIndexed ==
    /\ err # "yield call was erased"
    /\ RewriteReached =>
          \A a \in Range(Yields(prog)) :
              /\ YieldInPlace(a)
              /\ YieldStateChoices(prog, emitted, fixups, a) = {a[1]}

====
